---------------------------- MODULE Spec2Model ----------------------------
(***************************************************************************)
(* Model of paper-search-mcp's registry client (CrossRefSearcher) and      *)
(* mirror resolver and downloader (SciHubFetcher), with the two server     *)
(* tools that expose the registry client.                                  *)
(*                                                                         *)
(* Python strings the code inspects are sequences of one-character         *)
(* strings.  JSON / Python values are tagged records [t |-> tag, v |-> x]  *)
(* so that the dynamic type tests of the code (isinstance, truthiness,     *)
(* attribute errors) can be followed.  A call that may raise returns       *)
(* Ok(value) or Err(exception name).                                       *)
(***************************************************************************)
EXTENDS Integers, Sequences, FiniteSets, TLC

VARIABLES
    pc,      \* pc[t]: position of invocation t ("idle", "start", awaits, "done")
    op,      \* op[t]: the operation invoked and its arguments
    locals,  \* locals[t]: local variables kept across suspension points
    log,     \* log[t]: HTTP requests, sleeps and logged errors of the invocation
    resps,   \* resps[t]: network outcomes delivered to the invocation, in order
    result,  \* result[t]: pending, a returned value, or a raised exception
    loop,    \* "free", or the task that blocks the event loop thread (time.sleep)
    config,  \* component configuration fixed at construction
    files    \* the file system: directories made and the bytes of each file

vars == <<pc, op, locals, log, resps, result, loop, config, files>>

----------------------------------------------------------------------------
(* Bounds of the model *)

MaxItems == 2    \* longest items list of a registry search payload
MaxElems == 2    \* most elements of a mirror page

Tasks == {"t1"}

----------------------------------------------------------------------------
(* Python strings as character sequences *)

UpperToLower ==
    [A |-> "a", B |-> "b", C |-> "c", D |-> "d", E |-> "e", F |-> "f",
     G |-> "g", H |-> "h", I |-> "i", J |-> "j", K |-> "k", L |-> "l",
     M |-> "m", N |-> "n", O |-> "o", P |-> "p", Q |-> "q", R |-> "r",
     S |-> "s", T |-> "t", U |-> "u", V |-> "v", W |-> "w", X |-> "x",
     Y |-> "y", Z |-> "z"]

LowerChar(c) == IF c \in DOMAIN UpperToLower THEN UpperToLower[c] ELSE c

\* str.lower()
Lower(s) == [i \in 1..Len(s) |-> LowerChar(s[i])]

\* s[i:i+len(p)] == p
MatchAt(s, p, i) ==
    /\ i >= 1
    /\ i + Len(p) - 1 <= Len(s)
    /\ \A k \in 1..Len(p) : s[i + k - 1] = p[k]

\* str.startswith
StartsWith(s, p) == MatchAt(s, p, 1)

\* str.endswith
EndsWith(s, p) == MatchAt(s, p, Len(s) - Len(p) + 1)

\* p in s
Contains(s, p) == \E i \in 1..(Len(s) + 1) : MatchAt(s, p, i)

\* faulty variant: only the empty string counts as blank
IsBlank_EmptyOnly(s) == s = <<>>

\* str.strip() == '' : only whitespace
IsBlank(s) == \A i \in 1..Len(s) : s[i] \in {" ", "\t", "\n"}

Digits == <<"0", "1", "2", "3", "4", "5", "6", "7", "8", "9">>

RECURSIVE NatStr(_)
NatStr(n) == IF n < 10 THEN <<Digits[n + 1]>>
             ELSE NatStr(n \div 10) \o <<Digits[(n % 10) + 1]>>

\* str(n) for an int
IntStr(n) == IF n < 0 THEN <<"-">> \o NatStr(0 - n) ELSE NatStr(n)

----------------------------------------------------------------------------
(* Python / JSON values *)

JNull == [t |-> "null"]
JStr(s) == [t |-> "str", v |-> s]
JInt(n) == [t |-> "int", v |-> n]
JList(q) == [t |-> "list", v |-> q]
JDict(d) == [t |-> "dict", v |-> d]
EmptyDict == JDict(<<>>)
EmptyStr == JStr(<<>>)
EmptyList == JList(<<>>)

\* datetime object
DateTimeObj(y, m, d) == [t |-> "datetime", y |-> y, m |-> m, d |-> d]

Ok(x) == [ok |-> TRUE, val |-> x]
Err(e) == [ok |-> FALSE, exc |-> e]

IsDict(x) == x.t = "dict"
IsList(x) == x.t = "list"
IsStr(x) == x.t = "str"
IsInt(x) == x.t = "int"

\* bool(x)
Truthy(x) ==
    CASE x.t = "null" -> FALSE
      [] x.t = "str" -> Len(x.v) > 0
      [] x.t = "int" -> x.v # 0
      [] x.t = "list" -> Len(x.v) > 0
      [] x.t = "dict" -> DOMAIN x.v # {}
      [] OTHER -> TRUE

\* d.get(k, default) on a dict
DictGet(d, k, default) == IF k \in DOMAIN d.v THEN d.v[k] ELSE default

\* x.get(k, default): AttributeError unless x is a dict
PyGet(x, k, default) ==
    IF IsDict(x) THEN Ok(DictGet(x, k, default)) ELSE Err("AttributeError")

\* len(x)
PyLen(x) ==
    CASE x.t \in {"str", "list"} -> Ok(Len(x.v))
      [] x.t = "dict" -> Ok(Cardinality(DOMAIN x.v))
      [] OTHER -> Err("TypeError")

\* x[i] for an integer i >= 0 (Python index)
PyIndex(x, i) ==
    CASE x.t = "list" -> IF i < Len(x.v) THEN Ok(x.v[i + 1]) ELSE Err("IndexError")
      [] x.t = "str" -> IF i < Len(x.v) THEN Ok(JStr(<<x.v[i + 1]>>)) ELSE Err("IndexError")
      [] x.t = "dict" -> Err("KeyError")
      [] OTHER -> Err("TypeError")

RECURSIVE SetToSeq(_)
SetToSeq(S) == IF S = {} THEN <<>>
               ELSE LET x == CHOOSE y \in S : TRUE
                    IN <<x>> \o SetToSeq(S \ {x})

\* iter(x): the elements a for-loop visits.  A dict yields its keys (each a
\* str, kept whole as a one-element string), a str its characters.
PyIter(x) ==
    CASE x.t = "list" -> Ok(x.v)
      [] x.t = "str" -> Ok([i \in 1..Len(x.v) |-> JStr(<<x.v[i]>>)])
      [] x.t = "dict" -> Ok(LET ks == SetToSeq(DOMAIN x.v)
                            IN [i \in 1..Len(ks) |-> JStr(<<ks[i]>>)])
      [] OTHER -> Err("TypeError")

\* str(x) / f"{x}" for the values the model formats
PyStr(x) ==
    CASE x.t = "str" -> x.v
      [] x.t = "int" -> IntStr(x.v)
      [] x.t = "null" -> <<"N", "o", "n", "e">>
      [] OTHER -> <<"?">>

----------------------------------------------------------------------------
(* datetime(year, month, day) *)

IsLeap(y) == (y % 4 = 0) /\ ((y % 100 # 0) \/ (y % 400 = 0))

DaysInMonth(y, m) ==
    CASE m \in {4, 6, 9, 11} -> 30
      [] m = 2 -> IF IsLeap(y) THEN 29 ELSE 28
      [] OTHER -> 31

\* TypeError for a non-integer argument, ValueError for one out of range
DateTime(year, month, day) ==
    IF ~(IsInt(year) /\ IsInt(month) /\ IsInt(day)) THEN Err("TypeError")
    ELSE IF /\ year.v >= 1 /\ year.v <= 9999
            /\ month.v >= 1 /\ month.v <= 12
            /\ day.v >= 1 /\ day.v <= DaysInMonth(year.v, month.v)
         THEN Ok(DateTimeObj(year.v, month.v, day.v))
         ELSE Err("ValueError")

EPOCH == DateTimeObj(1970, 1, 1)

----------------------------------------------------------------------------
(* Metadata normalizer: CrossRefSearcher._parse_crossref_item and helpers *)

\* continue with F(value) unless r is a raised exception, which propagates
Then(r, F(_)) == IF r.ok THEN F(r.val) ELSE r

\* first element of a list field, else str(field) or ''
FirstOrStr(x) ==
    IF IsList(x) /\ Truthy(x) THEN x.v[1]
    ELSE IF Truthy(x) THEN JStr(PyStr(x)) ELSE EmptyStr

_extract_title(item) ==
    Then(PyGet(item, "title", EmptyList), LAMBDA titles : Ok(FirstOrStr(titles)))

_extract_container_title(item) ==
    Then(PyGet(item, "container-title", EmptyList),
         LAMBDA titles : Ok(FirstOrStr(titles)))

\* faulty variant: the family name is put first
DisplayName_FamilyFirst(given, family) ==
    IF Truthy(given) /\ Truthy(family)
    THEN <<JStr(PyStr(family) \o <<" ">> \o PyStr(given))>>
    ELSE IF Truthy(family) THEN <<family>>
    ELSE IF Truthy(given) THEN <<given>>
    ELSE <<>>

\* the display name built from one author's given and family values
DisplayName(given, family) ==
    IF Truthy(given) /\ Truthy(family)
    THEN <<JStr(PyStr(given) \o <<" ">> \o PyStr(family))>>
    ELSE IF Truthy(family) THEN <<family>>
    ELSE IF Truthy(given) THEN <<given>>
    ELSE <<>>

\* the display names one author entry contributes (none or one)
AuthorName(author) ==
    IF ~IsDict(author) THEN <<>>
    ELSE DisplayName(DictGet(author, "given", EmptyStr),
                     DictGet(author, "family", EmptyStr))

RECURSIVE AuthorNames(_)
AuthorNames(q) ==
    IF q = <<>> THEN <<>> ELSE AuthorName(Head(q)) \o AuthorNames(Tail(q))

_extract_authors(item) ==
    Then(PyGet(item, "author", EmptyList), LAMBDA author_list :
        Then(PyIter(author_list), LAMBDA q : Ok(AuthorNames(q))))

\* parts[i] if len(parts) > i else default
PartOr(parts, i, default) ==
    Then(PyLen(parts), LAMBDA n :
        IF n > i THEN PyIndex(parts, i) ELSE Ok(default))

\* except (ValueError, IndexError): return None
CatchValueOrIndexError(r) ==
    IF ~r.ok /\ r.exc \in {"ValueError", "IndexError"} THEN Ok(JNull) ELSE r

\* the try block of _extract_date
DateFromParts(parts) ==
    CatchValueOrIndexError(
        Then(PartOr(parts, 0, JInt(1970)), LAMBDA year :
            Then(PartOr(parts, 1, JInt(1)), LAMBDA month :
                Then(PartOr(parts, 2, JInt(1)), LAMBDA day :
                    DateTime(year, month, day)))))

_extract_date(item, date_field) ==
    Then(PyGet(item, date_field, EmptyDict), LAMBDA date_info :
        IF ~Truthy(date_info) THEN Ok(JNull)
        ELSE Then(PyGet(date_info, "date-parts", EmptyList), LAMBDA date_parts :
            IF ~Truthy(date_parts) THEN Ok(JNull)
            ELSE Then(PyIndex(date_parts, 0), LAMBDA first :
                IF ~Truthy(first) THEN Ok(JNull) ELSE DateFromParts(first))))

\* faulty variant: "issued" is consulted before "published"
PublishedDate_IssuedFirst(item) ==
    Then(_extract_date(item, "issued"), LAMBDA i :
        IF Truthy(i) THEN Ok(i)
        ELSE Then(_extract_date(item, "published"), LAMBDA p :
            IF Truthy(p) THEN Ok(p)
            ELSE Then(_extract_date(item, "created"), LAMBDA c :
                IF Truthy(c) THEN Ok(c) ELSE Ok(EPOCH))))

\* published, then issued, then created, then the epoch
PublishedDate(item) ==
    Then(_extract_date(item, "published"), LAMBDA p :
        IF Truthy(p) THEN Ok(p)
        ELSE Then(_extract_date(item, "issued"), LAMBDA i :
            IF Truthy(i) THEN Ok(i)
            ELSE Then(_extract_date(item, "created"), LAMBDA c :
                IF Truthy(c) THEN Ok(c) ELSE Ok(EPOCH))))

DOT_PDF == <<".", "p", "d", "f">>
PDF == <<"p", "d", "f">>

\* primary.get('URL', '').endswith('.pdf'), then primary['URL']
PrimaryUrlIfPdf(u) ==
    IF ~IsStr(u) THEN Err("AttributeError")
    ELSE IF EndsWith(u.v, DOT_PDF) THEN Ok(u) ELSE Ok(JNull)

\* the resource.primary.URL step: Ok(url), Ok(JNull) when it cedes, or Err
PrimaryPdfUrl(item) ==
    Then(PyGet(item, "resource", EmptyDict), LAMBDA resource :
        IF ~Truthy(resource) THEN Ok(JNull)
        ELSE Then(PyGet(resource, "primary", EmptyDict), LAMBDA primary :
            IF ~Truthy(primary) THEN Ok(JNull)
            ELSE Then(PyGet(primary, "URL", EmptyStr), PrimaryUrlIfPdf)))

\* 'pdf' in content_type.lower()
IsPdfContentType(content_type) ==
    IF ~IsStr(content_type) THEN Err("AttributeError")
    ELSE Ok(Contains(Lower(content_type.v), PDF))

\* the loop over the links list
RECURSIVE LinkPdfUrl(_)
LinkPdfUrl(links) ==
    IF links = <<>> THEN Ok(EmptyStr)
    ELSE IF ~IsDict(Head(links)) THEN LinkPdfUrl(Tail(links))
    ELSE Then(IsPdfContentType(DictGet(Head(links), "content-type", EmptyStr)),
              LAMBDA hit : IF hit THEN Ok(DictGet(Head(links), "URL", EmptyStr))
                           ELSE LinkPdfUrl(Tail(links)))

\* faulty variant: the links list is consulted before the primary resource
_extract_pdf_url_LinksFirst(item) ==
    Then(PyGet(item, "link", EmptyList), LAMBDA links :
        Then(PyIter(links), LAMBDA q :
            Then(LinkPdfUrl(q), LAMBDA hit :
                IF hit # EmptyStr THEN Ok(hit)
                ELSE Then(PrimaryPdfUrl(item), LAMBDA primary :
                    IF primary # JNull THEN Ok(primary) ELSE Ok(EmptyStr)))))

_extract_pdf_url(item) ==
    Then(PrimaryPdfUrl(item), LAMBDA primary :
        IF primary # JNull THEN Ok(primary)
        ELSE Then(PyGet(item, "link", EmptyList), LAMBDA links :
            Then(PyIter(links), LinkPdfUrl)))

DOI_ORG == <<"h", "t", "t", "p", "s", ":", "/", "/", "d", "o", "i", ".", "o", "r", "g", "/">>

\* the uniform paper record
Paper(paper_id, title, authors, abstract, doi, published_date, pdf_url, url, source, categories, keywords, citations, extra) ==
    [t |-> "paper", paper_id |-> paper_id, title |-> title, authors |-> authors,
     abstract |-> abstract, doi |-> doi, published_date |-> published_date,
     pdf_url |-> pdf_url, url |-> url, source |-> source,
     categories |-> categories, keywords |-> keywords, citations |-> citations,
     extra |-> extra]

\* item.get('URL', f"https://doi.org/{doi}" if doi else '')
LandingUrl(item, doi) ==
    DictGet(item, "URL",
            IF Truthy(doi) THEN JStr(DOI_ORG \o PyStr(doi)) ELSE EmptyStr)

\* keywords: the subject list, or [] when it is not a list
Keywords(subjects) == IF IsList(subjects) THEN subjects ELSE EmptyList

\* the Paper(...) call once every extraction has succeeded
BuildPaper(item, doi, title, authors, published_date, pdf_url, container_title) ==
    Paper(doi, title, authors, DictGet(item, "abstract", EmptyStr), doi,
          published_date, pdf_url, LandingUrl(item, doi), "crossref",
          <<DictGet(item, "type", EmptyStr)>>,
          Keywords(DictGet(item, "subject", EmptyList)),
          DictGet(item, "is-referenced-by-count", JInt(0)),
          [publisher |-> DictGet(item, "publisher", EmptyStr),
           container_title |-> container_title])

\* the body of the try block: Ok(paper) or Err
ParseItemBody(item) ==
    Then(PyGet(item, "DOI", EmptyStr), LAMBDA doi :
     Then(_extract_title(item), LAMBDA title :
      Then(_extract_authors(item), LAMBDA authors :
       Then(PublishedDate(item), LAMBDA published_date :
        Then(_extract_pdf_url(item), LAMBDA pdf_url :
         Then(_extract_container_title(item), LAMBDA container_title :
          Ok(BuildPaper(item, doi, title, authors, published_date, pdf_url,
                        container_title))))))))

\* except Exception: the error is logged and None returned
CatchAll(r) == IF r.ok THEN r.val ELSE JNull

_parse_crossref_item(item) == CatchAll(ParseItemBody(item))

----------------------------------------------------------------------------
(* CrossRefSearcher: constants and construction *)

BASE_URL ==
    <<"h", "t", "t", "p", "s", ":", "/", "/", "a", "p", "i", ".",
      "c", "r", "o", "s", "s", "r", "e", "f", ".", "o", "r", "g">>
USER_AGENT ==
    <<"p", "a", "p", "e", "r", "-", "s", "e", "a", "r", "c", "h",
      "-", "m", "c", "p", "/", "0", ".", "1", ".", "3", " ", "(",
      "h", "t", "t", "p", "s", ":", "/", "/", "g", "i", "t", "h",
      "u", "b", ".", "c", "o", "m", "/", "D", "r", "a", "g", "o",
      "n", "a", "t", "o", "r", "u", "l", "/", "p", "a", "p", "e",
      "r", "-", "s", "e", "a", "r", "c", "h", "-", "m", "c", "p",
      ";", " ", "m", "a", "i", "l", "t", "o", ":", "p", "a", "p",
      "e", "r", "-", "s", "e", "a", "r", "c", "h", "@", "e", "x",
      "a", "m", "p", "l", "e", ".", "o", "r", "g", ")">>
MAILTO == "paper-search@example.org"

\* self.headers as built by __init__
CrossRefHeaders == [Accept |-> "application/json"] @@ ("User-Agent" :> USER_AGENT)

RATE_LIMITED == 429
MAX_ROWS == 1000
BACKOFF_SECONDS == 2
REGISTRY_TIMEOUT == 30

----------------------------------------------------------------------------
(* Events an invocation issues, network outcomes, results *)

GetEvent(url, params, timeout, headers) ==
    [ev |-> "get", url |-> url, params |-> params, timeout |-> timeout,
     headers |-> headers]
SleepEvent(secs) == [ev |-> "sleep", secs |-> secs]

Response(status, body) == [kind |-> "response", status |-> status, body |-> body]
TransportError(exc) == [kind |-> "error", exc |-> exc]

\* a body response.json() cannot decode
InvalidJson == [t |-> "invalid"]

Pending == [kind |-> "pending"]
Return(v) == [kind |-> "return", val |-> v]
Raise(exc, msg) == [kind |-> "raise", exc |-> exc, msg |-> msg]

NoLocals == [none |-> TRUE]

Min(a, b) == IF a < b THEN a ELSE b

----------------------------------------------------------------------------
(* CrossRefSearcher.search *)

\* faulty variant: the registry's cap is not applied
Rows_Unclamped(max_results) == max_results

Rows(max_results) == Min(max_results, MAX_ROWS)

\* faulty variant: every keyword argument is copied into the parameters
SearchParams_AllKwargs(query, max_results, kwargs) ==
    kwargs @@ [query |-> query, rows |-> Rows(max_results),
               sort |-> "relevance", order |-> "desc", mailto |-> MAILTO]

\* faulty variant: a year keyword becomes a filter of the request
SearchParams_YearAsFilter(query, max_results, kwargs) ==
    LET p0 == [query |-> query, rows |-> Rows(max_results),
               sort |-> IF "sort" \in DOMAIN kwargs THEN kwargs["sort"] ELSE "relevance",
               order |-> IF "order" \in DOMAIN kwargs THEN kwargs["order"] ELSE "desc",
               mailto |-> MAILTO]
    IN IF "filter" \in DOMAIN kwargs THEN ("filter" :> kwargs["filter"]) @@ p0
       ELSE IF "year" \in DOMAIN kwargs THEN ("filter" :> kwargs["year"]) @@ p0
       ELSE p0

SearchParams(query, max_results, kwargs) ==
    LET p0 == [query |-> query, rows |-> Rows(max_results),
               sort |-> "relevance", order |-> "desc"]
        p1 == IF "filter" \in DOMAIN kwargs
              THEN ("filter" :> kwargs["filter"]) @@ p0 ELSE p0
        p2 == IF "sort" \in DOMAIN kwargs
              THEN ("sort" :> kwargs["sort"]) @@ p1 ELSE p1
        p3 == IF "order" \in DOMAIN kwargs
              THEN ("order" :> kwargs["order"]) @@ p2 ELSE p2
    IN ("mailto" :> MAILTO) @@ p3

WORKS == <<"/", "w", "o", "r", "k", "s">>

SearchUrl == BASE_URL \o WORKS

SearchRequest(url, params, headers) ==
    GetEvent(url, params, REGISTRY_TIMEOUT, headers)

\* faulty variant: every error status is retried
ShouldRetry_AnyError(status) == status >= 400

\* the condition of the single retry
ShouldRetry(status) == status = RATE_LIMITED

\* faulty variant: the status is never checked
RaiseForStatus_Never(status) == Ok(JNull)

\* response.raise_for_status(): HTTPStatusError unless the status is 2xx
RaiseForStatus(status) ==
    IF status >= 200 /\ status <= 299 THEN Ok(JNull) ELSE Err("HTTPStatusError")

\* response.json()
ResponseJson(body) == IF body = InvalidJson THEN Err("JSONDecodeError") ELSE Ok(body)

\* faulty variant: the first item that fails ends the loop
RECURSIVE ParseItems_AbortOnFailure(_)
ParseItems_AbortOnFailure(items) ==
    IF items = <<>> THEN <<>>
    ELSE IF _parse_crossref_item(Head(items)) = JNull THEN <<>>
    ELSE <<_parse_crossref_item(Head(items))>> \o ParseItems_AbortOnFailure(Tail(items))

\* the loop over items: a paper is appended, None or an exception skips the item
RECURSIVE ParseItems(_)
ParseItems(items) ==
    IF items = <<>> THEN <<>>
    ELSE LET paper == _parse_crossref_item(Head(items))
         IN (IF paper # JNull THEN <<paper>> ELSE <<>>) \o ParseItems(Tail(items))

\* lines 79-94: Ok(papers) or the exception that leaves the try block
SearchBody(resp) ==
    Then(RaiseForStatus(resp.status), LAMBDA st :
     Then(ResponseJson(resp.body), LAMBDA data :
      Then(PyGet(data, "message", EmptyDict), LAMBDA message :
       Then(PyGet(message, "items", EmptyList), LAMBDA items :
        Then(PyIter(items), LAMBDA q : Ok(ParseItems(q)))))))

\* faulty variant: the exception reaches the caller
SearchCatch_Reraise(r) == IF r.ok THEN Return(JList(r.val)) ELSE Raise(r.exc, <<>>)

\* except httpx.HTTPError / except Exception: return []
SearchCatch(r) == IF r.ok THEN Return(JList(r.val)) ELSE Return(EmptyList)

\* what search returns once the last response or transport error is in
SearchOutcome(outcome) ==
    IF outcome.kind = "error" THEN SearchCatch(Err(outcome.exc))
    ELSE SearchCatch(SearchBody(outcome))

----------------------------------------------------------------------------
(* CrossRefSearcher.get_paper_by_doi *)

NOT_FOUND == 404

LookupUrl(doi) == BASE_URL \o WORKS \o <<"/">> \o doi

LookupParams == [mailto |-> MAILTO]

\* lines 294-298: Ok(paper or None) or the exception that leaves the try block
LookupBody(resp) ==
    Then(RaiseForStatus(resp.status), LAMBDA st :
     Then(ResponseJson(resp.body), LAMBDA data :
      Then(PyGet(data, "message", EmptyDict), LAMBDA item :
       Ok(_parse_crossref_item(item)))))

\* faulty variant: the exception reaches the caller
LookupCatch_Reraise(r) == IF r.ok THEN Return(r.val) ELSE Raise(r.exc, <<>>)

\* except httpx.HTTPError / except Exception: return None
LookupCatch(r) == IF r.ok THEN Return(r.val) ELSE Return(JNull)

\* 404 returns None before raise_for_status
LookupOutcome(outcome) ==
    IF outcome.kind = "error" THEN LookupCatch(Err(outcome.exc))
    ELSE IF outcome.status = NOT_FOUND THEN Return(JNull)
    ELSE LookupCatch(LookupBody(outcome))

----------------------------------------------------------------------------
(* CrossRefSearcher.download_pdf / read_paper *)

DOWNLOAD_MESSAGE ==
    <<"C", "r", "o", "s", "s", "R", "e", "f", " ", "d", "o", "e",
      "s", " ", "n", "o", "t", " ", "p", "r", "o", "v", "i", "d",
      "e", " ", "d", "i", "r", "e", "c", "t", " ", "P", "D", "F",
      " ", "d", "o", "w", "n", "l", "o", "a", "d", "s", ".", " ",
      "C", "r", "o", "s", "s", "R", "e", "f", " ", "i", "s", " ",
      "a", " ", "c", "i", "t", "a", "t", "i", "o", "n", " ", "d",
      "a", "t", "a", "b", "a", "s", "e", " ", "t", "h", "a", "t",
      " ", "p", "r", "o", "v", "i", "d", "e", "s", " ", "m", "e",
      "t", "a", "d", "a", "t", "a", " ", "a", "b", "o", "u", "t",
      " ", "a", "c", "a", "d", "e", "m", "i", "c", " ", "p", "a",
      "p", "e", "r", "s", ".", " ", "T", "o", " ", "a", "c", "c",
      "e", "s", "s", " ", "t", "h", "e", " ", "f", "u", "l", "l",
      " ", "t", "e", "x", "t", ",", " ", "p", "l", "e", "a", "s",
      "e", " ", "u", "s", "e", " ", "t", "h", "e", " ", "p", "a",
      "p", "e", "r", "'", "s", " ", "D", "O", "I", " ", "o", "r",
      " ", "U", "R", "L", " ", "t", "o", " ", "v", "i", "s", "i",
      "t", " ", "t", "h", "e", " ", "p", "u", "b", "l", "i", "s",
      "h", "e", "r", "'", "s", " ", "w", "e", "b", "s", "i", "t",
      "e", ".">>

READ_MESSAGE ==
    <<"C", "r", "o", "s", "s", "R", "e", "f", " ", "p", "a", "p",
      "e", "r", "s", " ", "c", "a", "n", "n", "o", "t", " ", "b",
      "e", " ", "r", "e", "a", "d", " ", "d", "i", "r", "e", "c",
      "t", "l", "y", " ", "t", "h", "r", "o", "u", "g", "h", " ",
      "t", "h", "i", "s", " ", "t", "o", "o", "l", ".", " ", "C",
      "r", "o", "s", "s", "R", "e", "f", " ", "i", "s", " ", "a",
      " ", "c", "i", "t", "a", "t", "i", "o", "n", " ", "d", "a",
      "t", "a", "b", "a", "s", "e", " ", "t", "h", "a", "t", " ",
      "p", "r", "o", "v", "i", "d", "e", "s", " ", "m", "e", "t",
      "a", "d", "a", "t", "a", " ", "a", "b", "o", "u", "t", " ",
      "a", "c", "a", "d", "e", "m", "i", "c", " ", "p", "a", "p",
      "e", "r", "s", ".", " ", "O", "n", "l", "y", " ", "m", "e",
      "t", "a", "d", "a", "t", "a", " ", "a", "n", "d", " ", "a",
      "b", "s", "t", "r", "a", "c", "t", "s", " ", "a", "r", "e",
      " ", "a", "v", "a", "i", "l", "a", "b", "l", "e", " ", "t",
      "h", "r", "o", "u", "g", "h", " ", "C", "r", "o", "s", "s",
      "R", "e", "f", "'", "s", " ", "A", "P", "I", ".", " ", "T",
      "o", " ", "a", "c", "c", "e", "s", "s", " ", "t", "h", "e",
      " ", "f", "u", "l", "l", " ", "t", "e", "x", "t", ",", " ",
      "p", "l", "e", "a", "s", "e", " ", "u", "s", "e", " ", "t",
      "h", "e", " ", "p", "a", "p", "e", "r", "'", "s", " ", "D",
      "O", "I", " ", "o", "r", " ", "U", "R", "L", " ", "t", "o",
      " ", "v", "i", "s", "i", "t", " ", "t", "h", "e", " ", "p",
      "u", "b", "l", "i", "s", "h", "e", "r", "'", "s", " ", "w",
      "e", "b", "s", "i", "t", "e", ".">>

\* faulty variant: the unsupported download silently returns None
CrossRefDownloadPdf_ReturnsNone(paper_id, save_path) == Return(JNull)

\* download_pdf(paper_id, save_path): always raises
CrossRefDownloadPdf(paper_id, save_path) ==
    Raise("NotImplementedError", DOWNLOAD_MESSAGE)

\* read_paper(paper_id, save_path): always returns the message
CrossRefReadPaper(paper_id, save_path) == Return(JStr(READ_MESSAGE))

----------------------------------------------------------------------------
(* SciHubFetcher: construction and the mirror resolver _get_direct_url *)

DEFAULT_MIRROR ==
    <<"h", "t", "t", "p", "s", ":", "/", "/", "s", "c", "i", "-",
      "h", "u", "b", ".", "s", "e">>

\* str.rstrip("/")
RECURSIVE RStripSlash(_)
RStripSlash(s) ==
    IF Len(s) > 0 /\ s[Len(s)] = "/" THEN RStripSlash(SubSeq(s, 1, Len(s) - 1))
    ELSE s

MIRROR_TIMEOUT == 20
HTTP_OK == 200

APPLICATION_PDF ==
    <<"a", "p", "p", "l", "i", "c", "a", "t", "i", "o", "n", "/",
      "p", "d", "f">>
NOT_FOUND_PHRASE ==
    <<"a", "r", "t", "i", "c", "l", "e", " ", "n", "o", "t", " ",
      "f", "o", "u", "n", "d">>
LOCATION_HREF ==
    <<"l", "o", "c", "a", "t", "i", "o", "n", ".", "h", "r", "e",
      "f", "=", "'">>
HTTPS_COLON == <<"h", "t", "t", "p", "s", ":">>
HTTP == <<"h", "t", "t", "p">>
SLASH == <<"/">>
SLASH_SLASH == <<"/", "/">>

\* a page element as the HTML parser exposes it: tag name and attributes
Elem(tag, attrs) == [tag |-> tag, attrs |-> attrs]

\* element.get(name, default)
AttrGet(e, name, default) ==
    IF name \in DOMAIN e.attrs THEN JStr(e.attrs[name]) ELSE default

MinOf(S) == CHOOSE x \in S : \A y \in S : x <= y

\* faulty variant: a protocol-relative source is treated as a rooted path
Qualify_RootedOnly(src, base_url) ==
    IF StartsWith(src, SLASH) THEN base_url \o src ELSE src

\* the three-way qualification of embed, iframe and button sources
Qualify(src, base_url) ==
    IF StartsWith(src, SLASH_SLASH) THEN HTTPS_COLON \o src
    ELSE IF StartsWith(src, SLASH) THEN base_url \o src
    ELSE src

\* the qualification of anchor targets: JNull when the loop moves on
QualifyAnchor(href, base_url) ==
    IF StartsWith(href, SLASH_SLASH) THEN JStr(HTTPS_COLON \o href)
    ELSE IF StartsWith(href, SLASH) THEN JStr(base_url \o href)
    ELSE IF StartsWith(href, HTTP) THEN JStr(href)
    ELSE JNull

\* soup.find('embed', {'type': 'application/pdf'}) and its src
EmbedStrategy(elems, base_url) ==
    LET found == {i \in 1..Len(elems) :
                     /\ elems[i].tag = "embed"
                     /\ AttrGet(elems[i], "type", JNull) = JStr(APPLICATION_PDF)}
    IN IF found = {} THEN JNull
       ELSE LET src == AttrGet(elems[MinOf(found)], "src", JNull)
            IN IF Truthy(src) /\ IsStr(src) THEN JStr(Qualify(src.v, base_url))
               ELSE JNull

\* soup.find('iframe') and its src
IframeStrategy(elems, base_url) ==
    LET found == {i \in 1..Len(elems) : elems[i].tag = "iframe"}
    IN IF found = {} THEN JNull
       ELSE LET src == AttrGet(elems[MinOf(found)], "src", JNull)
            IN IF Truthy(src) /\ IsStr(src) THEN JStr(Qualify(src.v, base_url))
               ELSE JNull

\* re.search(r"location\.href='([^']+)'", onclick): group 1 or JNull
HrefMatch(s) ==
    LET n == Len(LOCATION_HREF)
        starts == {i \in 1..Len(s) :
                      /\ MatchAt(s, LOCATION_HREF, i)
                      /\ i + n <= Len(s)
                      /\ s[i + n] # "'"
                      /\ \E q \in (i + n + 1)..Len(s) : s[q] = "'"}
    IN IF starts = {} THEN JNull
       ELSE LET b == MinOf(starts) + n
                q == MinOf({k \in (b + 1)..Len(s) : s[k] = "'"})
            IN JStr(SubSeq(s, b, q - 1))

\* the loop over soup.find_all('button')
RECURSIVE ButtonStrategy(_, _)
ButtonStrategy(elems, base_url) ==
    IF elems = <<>> THEN JNull
    ELSE LET button == Head(elems)
             onclick == AttrGet(button, "onclick", EmptyStr)
             url_match == IF /\ button.tag = "button"
                             /\ IsStr(onclick)
                             /\ Contains(Lower(onclick.v), PDF)
                          THEN HrefMatch(onclick.v) ELSE JNull
         IN IF url_match # JNull THEN JStr(Qualify(url_match.v, base_url))
            ELSE ButtonStrategy(Tail(elems), base_url)

\* the loop over soup.find_all('a')
RECURSIVE AnchorStrategy(_, _)
AnchorStrategy(elems, base_url) ==
    IF elems = <<>> THEN JNull
    ELSE LET link == Head(elems)
             href == AttrGet(link, "href", EmptyStr)
             hit == IF /\ link.tag = "a"
                       /\ IsStr(href) /\ Truthy(href)
                       /\ (Contains(Lower(href.v), PDF) \/ EndsWith(href.v, DOT_PDF))
                    THEN QualifyAnchor(href.v, base_url) ELSE JNull
         IN IF hit # JNull THEN hit
            ELSE AnchorStrategy(Tail(elems), base_url)

\* faulty variant: the phrase is matched case-sensitively
ArticleNotFound_CaseSensitive(text) == Contains(text, NOT_FOUND_PHRASE)

\* "article not found" in response.text.lower()
ArticleNotFound(text) == Contains(Lower(text), NOT_FOUND_PHRASE)

\* faulty variant: the iframe is tried before the embed
ResolvePage_IframeFirst(page, base_url) ==
    IF Contains(Lower(page.text), NOT_FOUND_PHRASE) THEN JNull
    ELSE LET iframe == IframeStrategy(page.elems, base_url)
         IN IF iframe # JNull THEN iframe
            ELSE LET embed == EmbedStrategy(page.elems, base_url)
                 IN IF embed # JNull THEN embed
                    ELSE LET button == ButtonStrategy(page.elems, base_url)
                         IN IF button # JNull THEN button
                            ELSE AnchorStrategy(page.elems, base_url)

\* lines 95-157: the phrase check, then the strategies in order
ResolvePage(page, base_url) ==
    IF ArticleNotFound(page.text) THEN JNull
    ELSE LET embed == EmbedStrategy(page.elems, base_url)
         IN IF embed # JNull THEN embed
            ELSE LET iframe == IframeStrategy(page.elems, base_url)
                 IN IF iframe # JNull THEN iframe
                    ELSE LET button == ButtonStrategy(page.elems, base_url)
                         IN IF button # JNull THEN button
                            ELSE AnchorStrategy(page.elems, base_url)

\* faulty variant: only an http(s) URL takes the short cut
IsDirectPdf_UrlOnly(identifier) ==
    StartsWith(identifier, HTTP) /\ EndsWith(identifier, DOT_PDF)

\* the identifier is already a direct PDF URL
IsDirectPdf(identifier) == EndsWith(identifier, DOT_PDF)

MirrorUrl(base_url, identifier) == base_url \o SLASH \o identifier

\* the continuation after the mirror page request
ResolveOutcome(outcome, base_url) ==
    IF outcome.kind = "error" THEN Return(JNull)
    ELSE IF outcome.status # HTTP_OK THEN Return(JNull)
    ELSE Return(ResolvePage(outcome.body, base_url))

----------------------------------------------------------------------------
(* SciHubFetcher: _generate_filename and download_pdf *)

\* a record written by logging.error
ErrorEvent(msg) == [ev |-> "error", msg |-> msg]

\* httpx.URL, the type of an httpx response's url attribute: not a str, and
\* without a split method
UrlObject(s) == [t |-> "url", v |-> s]

\* pathlib.Path(s) as str(): leading "./" and trailing "/" are dropped
RECURSIVE PathOf(_)
PathOf(s) ==
    IF Len(s) > 2 /\ SubSeq(s, 1, 2) = <<".", "/">> THEN PathOf(SubSeq(s, 3, Len(s)))
    ELSE IF Len(s) > 1 /\ s[Len(s)] = "/" THEN PathOf(SubSeq(s, 1, Len(s) - 1))
    ELSE s

\* self.output_dir / filename, for a filename without "/"
PathJoin(dir, filename) == dir \o SLASH \o filename

DEFAULT_OUTPUT_DIR == <<".", "/", "d", "o", "w", "n", "l", "o", "a", "d", "s">>

\* the file system after mkdir(parents=True, exist_ok=True)
MkDir(fs, dir) == [fs EXCEPT !.dirs = @ \cup {dir}]

\* open(path, 'wb') and write: the file holds exactly content afterwards
WriteFile(fs, path, content) ==
    [fs EXCEPT !.data = (path :> content) @@ @]

EmptyFileSystem == [dirs |-> {}, data |-> <<>>]

\* response bodies the model distinguishes
PDF_BYTES_1 == <<"%", "P", "D", "F", "-", "1">>
PDF_BYTES_2 == <<"%", "P", "D", "F", "-", "2">>
HTML_BYTES == <<"<", "h", "t", "m", "l", ">">>

\* hashlib.md5(content).hexdigest()[:8], tabulated on the bodies above
MD5Prefix(content) ==
    CASE content = PDF_BYTES_1 -> <<"7", "0", "8", "4", "b", "a", "8", "d">>
      [] content = PDF_BYTES_2 -> <<"7", "7", "4", "6", "2", "3", "8", "6">>
      [] content = HTML_BYTES -> <<"1", "6", "6", "2", "4", "8", "a", "6">>
      [] content = <<>> -> <<"d", "4", "1", "d", "8", "c", "d", "9">>

\* s.split('/')[-1]
RECURSIVE LastPart(_)
LastPart(s) ==
    IF s = <<>> \/ s[Len(s)] = "/" THEN <<>>
    ELSE Append(LastPart(SubSeq(s, 1, Len(s) - 1)), s[Len(s)])

\* response.url.split('/')[-1]: only a str has split
UrlLastPart(url) ==
    IF IsStr(url) THEN Ok(LastPart(url.v)) ELSE Err("AttributeError")

VIEW == <<"#", "v", "i", "e", "w", "=">>

\* index of the first "\n" of s at or after i, or Len(s) + 1
LineEnd(s, i) ==
    IF \E k \in i..Len(s) : s[k] = "\n"
    THEN MinOf({k \in i..Len(s) : s[k] = "\n"})
    ELSE Len(s) + 1

\* starts of a match of #view=(.+): the marker and one more character
ViewMatches(s) ==
    {i \in 1..Len(s) : /\ MatchAt(s, VIEW, i)
                       /\ i + Len(VIEW) <= Len(s)
                       /\ s[i + Len(VIEW)] # "\n"}

\* re.sub(r'#view=(.+)', '', name)
RECURSIVE ReSubView(_)
ReSubView(s) ==
    IF ViewMatches(s) = {} THEN s
    ELSE SubSeq(s, 1, MinOf(ViewMatches(s)) - 1)
         \o ReSubView(SubSeq(s, LineEnd(s, MinOf(ViewMatches(s))), Len(s)))

\* the characters \w matches, on ASCII input
WordChars ==
    {"a", "b", "c", "d", "e", "f", "g", "h", "i", "j", "k", "l", "m",
     "n", "o", "p", "q", "r", "s", "t", "u", "v", "w", "x", "y", "z",
     "A", "B", "C", "D", "E", "F", "G", "H", "I", "J", "K", "L", "M",
     "N", "O", "P", "Q", "R", "S", "T", "U", "V", "W", "X", "Y", "Z",
     "0", "1", "2", "3", "4", "5", "6", "7", "8", "9", "_"}

\* re.sub(r'[^\w\-_.]', '_', identifier)
CleanIdentifier(identifier) ==
    [k \in 1..Len(identifier) |->
        IF identifier[k] \in WordChars \cup {"-", "_", "."} THEN identifier[k]
        ELSE "_"]

UNDERSCORE == <<"_">>

\* faulty variant: the digest is taken of an empty body
NameFor_EmptyDigest(name, content, identifier) ==
    IF EndsWith(name, DOT_PDF)
    THEN MD5Prefix(<<>>) \o UNDERSCORE \o SubSeq(name, 1, Len(name) - 4) \o DOT_PDF
    ELSE MD5Prefix(<<>>) \o UNDERSCORE \o CleanIdentifier(identifier) \o DOT_PDF

\* the two return statements of _generate_filename
NameFor(name, content, identifier) ==
    IF EndsWith(name, DOT_PDF)
    THEN MD5Prefix(content) \o UNDERSCORE \o SubSeq(name, 1, Len(name) - 4) \o DOT_PDF
    ELSE MD5Prefix(content) \o UNDERSCORE \o CleanIdentifier(identifier) \o DOT_PDF

\* _generate_filename(response, identifier), response given by its url and
\* content attributes
_generate_filename(url, content, identifier) ==
    Then(UrlLastPart(url), LAMBDA last :
        Ok(NameFor(ReSubView(last), content, identifier)))

ARTIFACT_TIMEOUT == 30

\* how an invocation step ends: its result (or Pending), the requests it
\* issues and errors it logs, and the files it writes
Step(res, events, writes) == [result |-> res, events |-> events, writes |-> writes]

\* a response of the artifact request; httpx follows no redirect, so the
\* response's url is the requested one
ArtifactResponse(status, content_type, url, content) ==
    [kind |-> "response", status |-> status, content_type |-> content_type,
     url |-> UrlObject(url), content |-> content]

\* lines 65-71: name the file, write it, return its path
SaveAs(filename, content, output_dir) ==
    IF ~filename.ok
    THEN Step(Return(JNull), <<ErrorEvent("Error downloading PDF")>>, <<>>)
    ELSE Step(Return(JStr(PathJoin(output_dir, filename.val))), <<>>,
              <<[path |-> PathJoin(output_dir, filename.val), content |-> content]>>)

\* faulty variant: any content type that mentions pdf is accepted
IsPdfResponse_Lenient(content_type) ==
    IsStr(content_type) /\ Contains(Lower(content_type.v), PDF)

\* response.headers.get('Content-Type') != 'application/pdf', negated
IsPdfResponse(content_type) == content_type = JStr(APPLICATION_PDF)

\* faulty variant: the body is written before status and type are checked
ArtifactOutcome_WriteFirst(o, identifier, output_dir) ==
    IF o.kind = "error"
    THEN Step(Return(JNull), <<ErrorEvent("Error downloading PDF")>>, <<>>)
    ELSE Step(Return(JNull), <<ErrorEvent("Failed to download PDF")>>,
              <<[path |-> PathJoin(output_dir, CleanIdentifier(identifier)),
                 content |-> o.content]>>)

\* lines 54-75: the continuation of download_pdf after the artifact request
ArtifactOutcome(o, identifier, output_dir) ==
    IF o.kind = "error"
    THEN Step(Return(JNull), <<ErrorEvent("Error downloading PDF")>>, <<>>)
    ELSE IF o.status # HTTP_OK
    THEN Step(Return(JNull), <<ErrorEvent("Failed to download PDF")>>, <<>>)
    ELSE IF ~IsPdfResponse(o.content_type)
    THEN Step(Return(JNull), <<ErrorEvent("Response is not a PDF")>>, <<>>)
    ELSE SaveAs(_generate_filename(o.url, o.content, identifier), o.content,
                output_dir)

\* faulty variant: the artifact is requested whatever the resolver returned
ResolvedOutcome_AlwaysFetch(pdf_url) ==
    Step(Pending,
         <<GetEvent(IF Truthy(pdf_url) THEN pdf_url.v ELSE <<>>, <<>>,
                    ARTIFACT_TIMEOUT, <<>>)>>, <<>>)

\* lines 47-54: the continuation of download_pdf once the resolver returns
ResolvedOutcome(pdf_url) ==
    IF ~Truthy(pdf_url)
    THEN Step(Return(JNull), <<ErrorEvent("Could not find PDF URL")>>, <<>>)
    ELSE Step(Pending, <<GetEvent(pdf_url.v, <<>>, ARTIFACT_TIMEOUT, <<>>)>>, <<>>)

\* the files of fs after the writes of a step, in order
RECURSIVE ApplyWrites(_, _)
ApplyWrites(fs, writes) ==
    IF writes = <<>> THEN fs
    ELSE ApplyWrites(WriteFile(fs, Head(writes).path, Head(writes).content),
                     Tail(writes))

HTTP_SCHEME == <<"h", "t", "t", "p", ":", "/", "/">>
HTTPS_SCHEME == <<"h", "t", "t", "p", "s", ":", "/", "/">>

\* httpx sends only http and https URLs; any other raises UnsupportedProtocol
IsHttpUrl(url) == StartsWith(url, HTTP_SCHEME) \/ StartsWith(url, HTTPS_SCHEME)

----------------------------------------------------------------------------
(* server.py: the search_crossref and get_crossref_paper_by_doi tools *)

\* Paper.to_dict: the serialization of a record, which is not part of the
\* component; the serialized record is kept apart from the record itself
ToDict(paper) == [t |-> "paper_dict", of |-> paper]

\* async_search: of the caller's keywords only "year" reaches searcher.search
ForwardedKwargs(kwargs) ==
    IF "year" \in DOMAIN kwargs THEN [k \in {"year"} |-> kwargs[k]]
    ELSE [k \in {} |-> kwargs[k]]

\* [paper.to_dict() for paper in papers], then papers if papers else []
ToolSearchResult(r) ==
    Return(JList([k \in 1..Len(r.val.v) |-> ToDict(r.val.v[k])]))

\* what the invocation hands to its caller: the tool serializes the records
Deliver(o, r) == IF o.name = "search_crossref" THEN ToolSearchResult(r) ELSE r

\* get_crossref_paper_by_doi: line 398 evaluates httpx.AsyncClient(), and
\* server.py never imports httpx
GetCrossrefPaperByDoi(doi) == Raise("NameError", "name 'httpx' is not defined")

----------------------------------------------------------------------------
(* Inputs: arguments of the calls and what the network may answer *)

\* all sequences over S of length at most n
SeqsUpTo(S, n) == UNION {[1..k -> S] : k \in 0..n}

Queries == {"", "machine learning"}
MaxResultsInputs == {0 - 1, 0, 10, 1000, 1001, 5000}

KwargValue == [filter |-> "has-full-text:true", sort |-> "published",
               order |-> "asc", year |-> "2020", mailto |-> "caller@example.org"]
KwargKeySets == {{}, {"filter"}, {"sort"}, {"order"}, {"year"}, {"mailto"},
                 {"filter", "sort", "order", "year"}}
KwargsInputs == {[k \in K |-> KwargValue[k]] : K \in KwargKeySets}

\* arguments of the search_crossref tool
ToolQueries == {"machine learning"}
ToolMaxResults == {10, 5000}

DateParts(q) ==
    JDict("date-parts" :> JList(<<JList([i \in 1..Len(q) |-> JInt(q[i])])>>))

DoiA == <<"1", "0", ".", "1", "/", "a">>
DoiB == <<"1", "0", ".", "1", "/", "b">>
DoiC == <<"1", "0", ".", "1", "/", "c">>
DoiD == <<"1", "0", ".", "1", "/", "d">>
DoiE == <<"1", "0", ".", "1", "/", "e">>

ItemFull ==
    JDict([DOI |-> JStr(DoiA),
           title |-> JList(<<JStr(<<"T">>)>>),
           author |-> JList(<<JDict([given |-> JStr(<<"A">>), family |-> JStr(<<"B">>)])>>),
           published |-> DateParts(<<2020, 5, 17>>)])
ItemCreatedOnly == JDict([DOI |-> JStr(DoiB), created |-> DateParts(<<2019>>)])
ItemBadMonth ==
    JDict([DOI |-> JStr(DoiE), published |-> DateParts(<<2021, 13>>),
           issued |-> DateParts(<<2021>>)])
ItemNotDict == JNull
ItemBadAuthor == JDict([DOI |-> JStr(DoiC), author |-> JNull])
ItemNullDate ==
    JDict([DOI |-> JStr(DoiD),
           issued |-> JDict("date-parts" :> JList(<<JList(<<JNull>>)>>))])

RawItems == {ItemFull, ItemCreatedOnly, ItemBadMonth, EmptyDict,
             ItemNotDict, ItemBadAuthor, ItemNullDate}

SearchPayload(items) == JDict([message |-> JDict([items |-> items])])

\* 200 bodies of /works: undecodable, unexpectedly shaped, and items lists
SearchBodies ==
    {InvalidJson, EmptyList, EmptyDict, JDict([message |-> JNull]),
     SearchPayload(JNull), SearchPayload(JStr(<<"x">>))}
    \cup {SearchPayload(JList(q)) : q \in SeqsUpTo(RawItems, MaxItems)}

ErrorStatuses == {NOT_FOUND, RATE_LIMITED, 500}
TransportErrors == {TransportError("ConnectError"), TransportError("ReadTimeout")}

SearchOutcomes ==
    TransportErrors
    \cup {Response(st, b) : st \in ErrorStatuses,
                            b \in {InvalidJson, SearchPayload(JList(<<ItemFull>>))}}
    \cup {Response(HTTP_OK, b) : b \in SearchBodies}

LookupPayload(item) == JDict([message |-> item])

LookupDois == {DoiA, DoiC}

\* items that differ in their date sources
ItemAllDates ==
    JDict([DOI |-> JStr(DoiA), published |-> DateParts(<<2020, 5, 17>>),
           issued |-> DateParts(<<1999>>), created |-> DateParts(<<1998, 1, 2>>)])
ItemIssuedCreated ==
    JDict([DOI |-> JStr(DoiA), issued |-> DateParts(<<2018, 3>>),
           created |-> DateParts(<<2017, 1, 1>>)])
ItemEmptyPublished ==
    JDict([DOI |-> JStr(DoiA), published |-> DateParts(<<>>),
           created |-> DateParts(<<2019>>)])
ItemBadDay ==
    JDict([DOI |-> JStr(DoiA), published |-> DateParts(<<2021, 2, 30>>),
           created |-> DateParts(<<2016, 12, 31>>)])
ItemAllBad ==
    JDict([DOI |-> JStr(DoiA), published |-> DateParts(<<2021, 13>>),
           issued |-> DateParts(<<0>>),
           created |-> JDict("date-parts" :> EmptyList)])
ItemLeapDay == JDict([DOI |-> JStr(DoiA), published |-> DateParts(<<2020, 2, 29>>)])

DatedItems == {ItemAllDates, ItemIssuedCreated, ItemEmptyPublished, ItemBadDay,
               ItemAllBad, ItemLeapDay}

\* entries of an author list
AuthorBoth == JDict([given |-> JStr(<<"A">>), family |-> JStr(<<"B">>)])
AuthorFamilyOnly == JDict([family |-> JStr(<<"C">>)])
AuthorGivenOnly == JDict([given |-> JStr(<<"D">>)])
AuthorEmptyGiven == JDict([given |-> EmptyStr, family |-> JStr(<<"E">>)])
AuthorNeither == JDict([given |-> EmptyStr, ORCID |-> JStr(<<"0">>)])
AuthorEntries == {AuthorBoth, AuthorFamilyOnly, AuthorGivenOnly, AuthorEmptyGiven,
                  AuthorNeither, EmptyDict, JNull}

MaxAuthors == 2

\* items that differ in their author list
AuthoredItems ==
    {JDict([DOI |-> JStr(DoiA), author |-> JList(q)]) :
        q \in SeqsUpTo(AuthorEntries, MaxAuthors)}

\* the resource field of an item: primary URL with and without the suffix
PRIMARY_PDF_URL == <<"h", ":", "/", "a", ".", "p", "d", "f">>
PRIMARY_HTML_URL == <<"h", ":", "/", "a">>
ResourceOf(u) == JDict([primary |-> JDict([URL |-> JStr(u)])])

\* entries of a links list
LinkPdf == JDict("content-type" :> JStr(APPLICATION_PDF) @@ "URL" :> JStr(<<"h", ":", "/", "1">>))
LinkPdfUpper ==
    JDict("content-type" :> JStr(<<"A", "p", "p", "/", "P", "D", "F">>)
          @@ "URL" :> JStr(<<"h", ":", "/", "2">>))
LinkHtml == JDict("content-type" :> JStr(<<"t", "e", "x", "t", "/", "h", "t", "m", "l">>)
                  @@ "URL" :> JStr(<<"h", ":", "/", "3">>))
LinkUntyped == JDict([URL |-> JStr(<<"h", ":", "/", "4">>)])
LinkPdfNoUrl == JDict("content-type" :> JStr(APPLICATION_PDF))
LinkEntries == {LinkPdf, LinkPdfUpper, LinkHtml, LinkUntyped, LinkPdfNoUrl, JNull}

MaxLinks == 2

\* items that differ in their primary resource and their links list
LinkedItems ==
    {JDict([DOI |-> JStr(DoiA), link |-> JList(q)]) : q \in SeqsUpTo(LinkEntries, MaxLinks)}
    \cup {JDict([DOI |-> JStr(DoiA), resource |-> ResourceOf(u), link |-> JList(q)]) :
             u \in {PRIMARY_PDF_URL, PRIMARY_HTML_URL},
             q \in SeqsUpTo(LinkEntries, MaxLinks)}

LookupBodies ==
    {InvalidJson, EmptyList, EmptyDict, LookupPayload(JNull)}
    \cup {LookupPayload(i) :
             i \in RawItems \cup DatedItems \cup AuthoredItems \cup LinkedItems}

LookupOutcomes ==
    TransportErrors
    \cup {Response(st, b) : st \in ErrorStatuses,
                            b \in {InvalidJson, LookupPayload(ItemFull)}}
    \cup {Response(HTTP_OK, b) : b \in LookupBodies}

SavePaths == {"./downloads"}

Identifiers ==
    {<<"1", "0", ".", "1", "/", "x">>,
     <<"h", "t", "t", "p", ":", "/", "/", "c", "/", "p", ".", "p", "d", "f">>,
     <<"x", ".", "p", "d", "f">>,
     <<"p", ".", "P", "D", "F">>}

Attr(name, value) == name :> value

PageElems ==
    {Elem("embed", Attr("type", APPLICATION_PDF) @@ Attr("src", <<"/", "/", "c", "/", "e", ".", "p", "d", "f">>)),
     Elem("embed", Attr("type", APPLICATION_PDF)),
     Elem("embed", Attr("type", APPLICATION_PDF) @@ Attr("src", <<"e", ".", "p", "d", "f">>)),
     Elem("embed", Attr("type", <<"t", "e", "x", "t", "/", "h", "t", "m", "l">>) @@ Attr("src", <<"/", "n", "o">>)),
     Elem("iframe", Attr("src", <<"/", "f", "/", "i", ".", "p", "d", "f">>)),
     Elem("iframe", Attr("src", <<>>)),
     Elem("button", Attr("onclick", <<"l", "o", "c", "a", "t", "i", "o", "n", ".", "h", "r", "e", "f", "=", "'", "/", "b", "/", "x", ".", "p", "d", "f", "'">>)),
     Elem("button", Attr("onclick", <<"a", "l", "e", "r", "t", "(", "'", "p", "d", "f", "'", ")">>)),
     Elem("button", Attr("onclick", <<"l", "o", "c", "a", "t", "i", "o", "n", ".", "h", "r", "e", "f", "=", "'", "/", "b", "/", "x", "'">>)),
     Elem("a", Attr("href", <<"/", "d", "/", "x", ".", "p", "d", "f">>)),
     Elem("a", Attr("href", <<"d", "/", "x", ".", "p", "d", "f">>)),
     Elem("a", Attr("href", <<"h", "t", "t", "p", ":", "/", "/", "c", "/", "a", ".", "P", "D", "F">>)),
     Elem("a", Attr("href", <<"/", "a", "b", "o", "u", "t">>))}

PageTexts ==
    {<<>>,
     <<"a", "r", "t", "i", "c", "l", "e", " ", "n", "o", "t", " ", "f", "o", "u", "n", "d">>,
     <<"S", "o", "r", "r", "y", ":", " ", "A", "r", "t", "i", "c", "l", "e", " ", "N", "o", "t", " ", "F", "o", "u", "n", "d">>,
     <<"a", "r", "t", "i", "c", "l", "e", " ", "f", "o", "u", "n", "d">>}

Page(text, elems) == [text |-> text, elems |-> elems]

MirrorPages ==
    {Page(x, q) : x \in PageTexts, q \in SeqsUpTo(PageElems, MaxElems)}

EmptyPage == Page(<<>>, <<>>)

MirrorOutcomes ==
    TransportErrors
    \cup {Response(st, b) : st \in {NOT_FOUND, 503},
                            b \in {EmptyPage, Page(<<>>, <<Elem("a", Attr("href", <<"/", "d", "/", "x", ".", "p", "d", "f">>))>>)}}
    \cup {Response(HTTP_OK, b) : b \in MirrorPages}

\* identifiers handed to download_pdf
FetchIdentifiers ==
    {<<>>,
     <<" ", " ">>,
     <<" ", "\t", "\n">>,
     <<"1", "0", ".", "1", "/", "x">>,
     <<"h", "t", "t", "p", ":", "/", "/", "c", "/", "p", ".", "p", "d", "f">>,
     <<"x", ".", "p", "d", "f">>}

MaxFetchElems == 1   \* most elements of a mirror page seen by download_pdf

FetchMirrorOutcomes ==
    TransportErrors
    \cup {Response(NOT_FOUND, EmptyPage)}
    \cup {Response(HTTP_OK, Page(x, q)) :
             x \in PageTexts, q \in SeqsUpTo(PageElems, MaxFetchElems)}

Contents == {PDF_BYTES_1, PDF_BYTES_2}

OCTET_STREAM ==
    <<"a", "p", "p", "l", "i", "c", "a", "t", "i", "o", "n", "/", "o", "c",
       "t", "e", "t", "-", "s", "t", "r", "e", "a", "m">>
PDF_WITH_CHARSET ==
    <<"a", "p", "p", "l", "i", "c", "a", "t", "i", "o", "n", "/", "p", "d",
       "f", ";", " ", "c", "h", "a", "r", "s", "e", "t", "=", "b", "i", "n",
       "a", "r", "y">>
TEXT_HTML == <<"t", "e", "x", "t", "/", "h", "t", "m", "l">>

\* values of response.headers.get('Content-Type'): None when absent
ContentTypes ==
    {JNull, JStr(APPLICATION_PDF), JStr(OCTET_STREAM), JStr(PDF_WITH_CHARSET)}

\* what the artifact request to url may end in
ArtifactOutcomes(url) ==
    IF ~IsHttpUrl(url) THEN {TransportError("UnsupportedProtocol")}
    ELSE TransportErrors
         \cup {ArtifactResponse(NOT_FOUND, ct, url, HTML_BYTES) :
                  ct \in {JStr(TEXT_HTML), JStr(APPLICATION_PDF)}}
         \cup {ArtifactResponse(HTTP_OK, ct, url, b) :
                  ct \in ContentTypes, b \in Contents}

\* response.url of the objects handed to _generate_filename directly: the
\* unit test's mock holds a str, an httpx response a URL object
FilenameUrls ==
    {JStr(<<"h", "t", "t", "p", "s", ":", "/", "/", "e", ".", "c", "o", "m", "/",
       "p", "a", "p", "e", "r", ".", "p", "d", "f">>),
     JStr(<<"h", "t", "t", "p", "s", ":", "/", "/", "e", ".", "c", "o", "m", "/",
       "p", "a", "g", "e">>),
     JStr(<<"h", "t", "t", "p", ":", "/", "/", "c", "/", "a", ".", "p", "d", "f",
       "#", "v", "i", "e", "w", "=", "F", "i", "t", "H">>),
     JStr(<<"h", "t", "t", "p", ":", "/", "/", "c", "/", "a", ".", "p", "d", "f",
       "#", "v", "i", "e", "w", "=">>),
     JStr(<<"h", "t", "t", "p", ":", "/", "/", "c", "/", "v", "#", "v", "i", "e",
       "w", "=", "1">>),
     JStr(<<"h", "t", "t", "p", ":", "/", "/", "c", "/", "d", "/">>),
     UrlObject(<<"h", "t", "t", "p", "s", ":", "/", "/", "e", ".", "c", "o", "m", "/",
       "p", "a", "p", "e", "r", ".", "p", "d", "f">>)}

FilenameIdentifiers ==
    {<<"1", "0", ".", "1", "2", "3", "4", "/", "t", "e", "s", "t">>,
     <<"t", "e", "s", "t", "-", "p", "a", "p", "e", "r">>,
     <<"a", " ", "b", "_", "c", ".", "d">>}

FilenameContents == Contents \cup {HTML_BYTES, <<>>}

----------------------------------------------------------------------------
(* The state machine *)

\* CrossRefSearcher.__init__ and SciHubFetcher.__init__
Construct(base_url, output_dir) ==
    [cr_headers |-> CrossRefHeaders,
     sh_base_url |-> RStripSlash(base_url),
     sh_output_dir |-> PathOf(output_dir)]

Init ==
    /\ pc = [t \in Tasks |-> "idle"]
    /\ op = [t \in Tasks |-> [name |-> "none"]]
    /\ locals = [t \in Tasks |-> NoLocals]
    /\ log = [t \in Tasks |-> <<>>]
    /\ resps = [t \in Tasks |-> <<>>]
    /\ result = [t \in Tasks |-> Pending]
    /\ loop = "free"
    /\ config = Construct(DEFAULT_MIRROR, DEFAULT_OUTPUT_DIR)
    /\ files = MkDir(EmptyFileSystem, PathOf(DEFAULT_OUTPUT_DIR))

\* the invocation ends with result r
Finish(t, r) ==
    /\ pc' = [pc EXCEPT ![t] = "done"]
    /\ result' = [result EXCEPT ![t] = r]

\* search(query, max_results, **kwargs) runs up to its first request
SearchCall(t) ==
    /\ pc[t] = "idle" /\ loop = "free"
    /\ \E q \in Queries, m \in MaxResultsInputs, kw \in KwargsInputs :
          LET params == SearchParams(q, m, kw)
          IN /\ op' = [op EXCEPT ![t] = [name |-> "search", query |-> q,
                                        max_results |-> m, kwargs |-> kw]]
             /\ locals' = [locals EXCEPT ![t] = [url |-> SearchUrl, params |-> params]]
             /\ log' = [log EXCEPT ![t] =
                           <<SearchRequest(SearchUrl, params, config.cr_headers)>>]
    /\ pc' = [pc EXCEPT ![t] = "search_await1"]
    /\ resps' = [resps EXCEPT ![t] = <<>>]
    /\ result' = [result EXCEPT ![t] = Pending]
    /\ UNCHANGED <<loop, config, files>>

\* the first response arrives: on 429 the coroutine calls time.sleep, which
\* holds the event loop thread; otherwise it runs to its return
SearchResp1(t) ==
    /\ pc[t] = "search_await1" /\ loop = "free"
    /\ \E o \in SearchOutcomes :
          /\ resps' = [resps EXCEPT ![t] = Append(@, o)]
          /\ IF o.kind = "response" /\ ShouldRetry(o.status)
             THEN /\ log' = [log EXCEPT ![t] = Append(@, SleepEvent(BACKOFF_SECONDS))]
                  /\ pc' = [pc EXCEPT ![t] = "search_sleep"]
                  /\ loop' = t
                  /\ UNCHANGED result
             ELSE /\ Finish(t, Deliver(op[t], SearchOutcome(o)))
                  /\ UNCHANGED <<log, loop>>
    /\ UNCHANGED <<op, locals, config, files>>

\* the sleep ends and the same request is issued again
SearchWake(t) ==
    /\ pc[t] = "search_sleep" /\ loop = t
    /\ log' = [log EXCEPT ![t] =
                  Append(@, SearchRequest(locals[t].url, locals[t].params,
                                          config.cr_headers))]
    /\ pc' = [pc EXCEPT ![t] = "search_await2"]
    /\ loop' = "free"
    /\ UNCHANGED <<op, locals, resps, result, config, files>>

\* the second response arrives; the coroutine runs to its return
SearchResp2(t) ==
    /\ pc[t] = "search_await2" /\ loop = "free"
    /\ \E o \in SearchOutcomes :
          /\ resps' = [resps EXCEPT ![t] = Append(@, o)]
          /\ Finish(t, Deliver(op[t], SearchOutcome(o)))
    /\ UNCHANGED <<op, locals, log, loop, config, files>>

\* faulty variant: a lookup of a DOI that another invocation is already
\* looking up issues no request of its own
LookupCall_Coalesced(t) ==
    /\ pc[t] = "idle" /\ loop = "free"
    /\ \E doi \in LookupDois :
          /\ op' = [op EXCEPT ![t] = [name |-> "lookup", doi |-> doi]]
          /\ log' = [log EXCEPT ![t] =
                        IF \E u \in DOMAIN pc : pc[u] = "lookup_await" /\ op[u].doi = doi
                        THEN <<>>
                        ELSE <<GetEvent(LookupUrl(doi), LookupParams, REGISTRY_TIMEOUT,
                                        config.cr_headers)>>]
    /\ pc' = [pc EXCEPT ![t] = "lookup_await"]
    /\ locals' = [locals EXCEPT ![t] = NoLocals]
    /\ resps' = [resps EXCEPT ![t] = <<>>]
    /\ result' = [result EXCEPT ![t] = Pending]
    /\ UNCHANGED <<loop, config, files>>

\* get_paper_by_doi(doi) runs up to its request
LookupCall(t) ==
    /\ pc[t] = "idle" /\ loop = "free"
    /\ \E doi \in LookupDois :
          /\ op' = [op EXCEPT ![t] = [name |-> "lookup", doi |-> doi]]
          /\ log' = [log EXCEPT ![t] =
                        <<GetEvent(LookupUrl(doi), LookupParams, REGISTRY_TIMEOUT,
                                   config.cr_headers)>>]
    /\ pc' = [pc EXCEPT ![t] = "lookup_await"]
    /\ locals' = [locals EXCEPT ![t] = NoLocals]
    /\ resps' = [resps EXCEPT ![t] = <<>>]
    /\ result' = [result EXCEPT ![t] = Pending]
    /\ UNCHANGED <<loop, config, files>>

LookupResp(t) ==
    /\ pc[t] = "lookup_await" /\ loop = "free"
    /\ \E o \in LookupOutcomes :
          /\ resps' = [resps EXCEPT ![t] = Append(@, o)]
          /\ Finish(t, LookupOutcome(o))
    /\ UNCHANGED <<op, locals, log, loop, config, files>>

\* CrossRefSearcher.download_pdf: a plain function, runs to its raise
DownloadPdfCall(t) ==
    /\ pc[t] = "idle" /\ loop = "free"
    /\ \E id \in LookupDois, sp \in SavePaths :
          /\ op' = [op EXCEPT ![t] = [name |-> "cr_download_pdf", paper_id |-> id,
                                        save_path |-> sp]]
          /\ Finish(t, CrossRefDownloadPdf(id, sp))
    /\ log' = [log EXCEPT ![t] = <<>>]
    /\ resps' = [resps EXCEPT ![t] = <<>>]
    /\ locals' = [locals EXCEPT ![t] = NoLocals]
    /\ UNCHANGED <<loop, config, files>>

\* CrossRefSearcher.read_paper: a plain function, runs to its return
ReadPaperCall(t) ==
    /\ pc[t] = "idle" /\ loop = "free"
    /\ \E id \in LookupDois, sp \in SavePaths :
          /\ op' = [op EXCEPT ![t] = [name |-> "cr_read_paper", paper_id |-> id,
                                        save_path |-> sp]]
          /\ Finish(t, CrossRefReadPaper(id, sp))
    /\ log' = [log EXCEPT ![t] = <<>>]
    /\ resps' = [resps EXCEPT ![t] = <<>>]
    /\ locals' = [locals EXCEPT ![t] = NoLocals]
    /\ UNCHANGED <<loop, config, files>>

\* _get_direct_url(identifier): returns at once for a ".pdf" identifier,
\* otherwise runs up to the mirror page request
ResolveCall(t) ==
    /\ pc[t] = "idle" /\ loop = "free"
    /\ \E id \in Identifiers :
          /\ op' = [op EXCEPT ![t] = [name |-> "resolve", identifier |-> id]]
          /\ IF IsDirectPdf(id)
             THEN /\ Finish(t, Return(JStr(id)))
                  /\ log' = [log EXCEPT ![t] = <<>>]
             ELSE /\ pc' = [pc EXCEPT ![t] = "resolve_await"]
                  /\ result' = [result EXCEPT ![t] = Pending]
                  /\ log' = [log EXCEPT ![t] =
                                <<GetEvent(MirrorUrl(config.sh_base_url, id), <<>>,
                                           MIRROR_TIMEOUT, <<>>)>>]
    /\ resps' = [resps EXCEPT ![t] = <<>>]
    /\ locals' = [locals EXCEPT ![t] = NoLocals]
    /\ UNCHANGED <<loop, config, files>>

\* the mirror page arrives; the coroutine runs to its return
ResolveResp(t) ==
    /\ pc[t] = "resolve_await" /\ loop = "free"
    /\ \E o \in MirrorOutcomes :
          /\ resps' = [resps EXCEPT ![t] = Append(@, o)]
          /\ Finish(t, ResolveOutcome(o, config.sh_base_url))
    /\ UNCHANGED <<op, locals, log, loop, config, files>>

\* _generate_filename called directly, as the unit test does
GenerateFilenameCall(t) ==
    /\ pc[t] = "idle" /\ loop = "free"
    /\ \E url \in FilenameUrls, b \in FilenameContents, id \in FilenameIdentifiers :
          /\ op' = [op EXCEPT ![t] = [name |-> "generate_filename", url |-> url,
                                        content |-> b, identifier |-> id]]
          /\ Finish(t, IF _generate_filename(url, b, id).ok
                       THEN Return(JStr(_generate_filename(url, b, id).val))
                       ELSE Raise(_generate_filename(url, b, id).exc, ""))
    /\ log' = [log EXCEPT ![t] = <<>>]
    /\ resps' = [resps EXCEPT ![t] = <<>>]
    /\ locals' = [locals EXCEPT ![t] = NoLocals]
    /\ UNCHANGED <<loop, config, files>>

\* the invocation goes on after a step s of download_pdf
FetchStep(t, s, next_pc, pdf_url) ==
    /\ log' = [log EXCEPT ![t] = @ \o s.events]
    /\ files' = ApplyWrites(files, s.writes)
    /\ IF s.result = Pending
       THEN /\ pc' = [pc EXCEPT ![t] = next_pc]
            /\ locals' = [locals EXCEPT ![t] = [pdf_url |-> pdf_url]]
            /\ UNCHANGED result
       ELSE /\ Finish(t, s.result)
            /\ UNCHANGED locals

\* download_pdf(identifier): returns at once for a blank identifier; for a
\* ".pdf" identifier the resolver returns without suspending and the
\* artifact request is issued; otherwise the mirror page is requested
FetchCall(t) ==
    /\ pc[t] = "idle" /\ loop = "free"
    /\ \E id \in FetchIdentifiers :
          /\ op' = [op EXCEPT ![t] = [name |-> "fetch", identifier |-> id]]
          /\ IF IsBlank(id)
             THEN /\ Finish(t, Return(JNull))
                  /\ log' = [log EXCEPT ![t] = <<>>]
             ELSE IF IsDirectPdf(id)
             THEN /\ pc' = [pc EXCEPT ![t] = "fetch_await_artifact"]
                  /\ result' = [result EXCEPT ![t] = Pending]
                  /\ log' = [log EXCEPT ![t] = ResolvedOutcome(JStr(id)).events]
             ELSE /\ pc' = [pc EXCEPT ![t] = "fetch_await_page"]
                  /\ result' = [result EXCEPT ![t] = Pending]
                  /\ log' = [log EXCEPT ![t] =
                                <<GetEvent(MirrorUrl(config.sh_base_url, id), <<>>,
                                           MIRROR_TIMEOUT, <<>>)>>]
          /\ locals' = [locals EXCEPT ![t] =
                           IF IsDirectPdf(id) THEN [pdf_url |-> JStr(id)] ELSE NoLocals]
    /\ resps' = [resps EXCEPT ![t] = <<>>]
    /\ UNCHANGED <<loop, config, files>>

\* the mirror page arrives: the resolver returns, and download_pdf either
\* gives up or issues the artifact request
FetchPage(t) ==
    /\ pc[t] = "fetch_await_page" /\ loop = "free"
    /\ \E o \in FetchMirrorOutcomes :
          /\ resps' = [resps EXCEPT ![t] = Append(@, o)]
          /\ FetchStep(t, ResolvedOutcome(ResolveOutcome(o, config.sh_base_url).val),
                       "fetch_await_artifact",
                       ResolveOutcome(o, config.sh_base_url).val)
    /\ UNCHANGED <<op, loop, config>>

\* the artifact response arrives; download_pdf runs to its return
FetchArtifact(t) ==
    /\ pc[t] = "fetch_await_artifact" /\ loop = "free"
    /\ \E o \in ArtifactOutcomes(locals[t].pdf_url.v) :
          /\ resps' = [resps EXCEPT ![t] = Append(@, o)]
          /\ FetchStep(t, ArtifactOutcome(o, op[t].identifier, config.sh_output_dir),
                       "done", locals[t].pdf_url)
    /\ UNCHANGED <<op, loop, config>>

\* the search_crossref tool: async_search calls searcher.search, which runs
\* up to its first request
SearchCrossrefCall(t) ==
    /\ pc[t] = "idle" /\ loop = "free"
    /\ \E q \in ToolQueries, m \in ToolMaxResults, kw \in KwargsInputs :
          LET params == SearchParams(q, m, ForwardedKwargs(kw))
          IN /\ op' = [op EXCEPT ![t] = [name |-> "search_crossref", query |-> q,
                                        max_results |-> m, kwargs |-> kw]]
             /\ locals' = [locals EXCEPT ![t] = [url |-> SearchUrl, params |-> params]]
             /\ log' = [log EXCEPT ![t] =
                           <<SearchRequest(SearchUrl, params, config.cr_headers)>>]
    /\ pc' = [pc EXCEPT ![t] = "search_await1"]
    /\ resps' = [resps EXCEPT ![t] = <<>>]
    /\ result' = [result EXCEPT ![t] = Pending]
    /\ UNCHANGED <<loop, config, files>>

\* the get_crossref_paper_by_doi tool: runs to its end without a request
GetCrossrefPaperByDoiCall(t) ==
    /\ pc[t] = "idle" /\ loop = "free"
    /\ \E doi \in LookupDois :
          /\ op' = [op EXCEPT ![t] = [name |-> "get_crossref_paper_by_doi", doi |-> doi]]
          /\ Finish(t, GetCrossrefPaperByDoi(doi))
    /\ log' = [log EXCEPT ![t] = <<>>]
    /\ resps' = [resps EXCEPT ![t] = <<>>]
    /\ locals' = [locals EXCEPT ![t] = NoLocals]
    /\ UNCHANGED <<loop, config, files>>

\* the caller takes the result; the task can be used for another call
Collect(t) ==
    /\ pc[t] = "done"
    /\ pc' = [pc EXCEPT ![t] = "idle"]
    /\ op' = [op EXCEPT ![t] = [name |-> "none"]]
    /\ locals' = [locals EXCEPT ![t] = NoLocals]
    /\ log' = [log EXCEPT ![t] = <<>>]
    /\ resps' = [resps EXCEPT ![t] = <<>>]
    /\ result' = [result EXCEPT ![t] = Pending]
    /\ UNCHANGED <<loop, config, files>>

Next ==
    \E t \in Tasks :
        \/ SearchCall(t)
        \/ SearchResp1(t)
        \/ SearchWake(t)
        \/ SearchResp2(t)
        \/ LookupCall(t)
        \/ LookupResp(t)
        \/ DownloadPdfCall(t)
        \/ ReadPaperCall(t)
        \/ ResolveCall(t)
        \/ ResolveResp(t)
        \/ GenerateFilenameCall(t)
        \/ FetchCall(t)
        \/ FetchPage(t)
        \/ FetchArtifact(t)
        \/ SearchCrossrefCall(t)
        \/ GetCrossrefPaperByDoiCall(t)
        \/ Collect(t)

Spec == Init /\ [][Next]_vars

----------------------------------------------------------------------------
(* Two invocations on one event loop *)

ConcTasks == {"t1", "t2"}

\* the arguments the two invocations are called with
ConcArgs(o) ==
    CASE o.name = "search" ->
            /\ o.query = "machine learning" /\ o.max_results = 10
            /\ DOMAIN o.kwargs = {}
      [] o.name = "lookup" -> o.doi = DoiA
      [] o.name = "resolve" ->
            o.identifier \in {<<"1", "0", ".", "1", "/", "x">>, <<"x", ".", "p", "d", "f">>}
      [] o.name = "fetch" ->
            o.identifier \in {<<"1", "0", ".", "1", "/", "x">>, <<" ", " ">>}
      [] o.name = "generate_filename" ->
            /\ ViewMatches(o.url.v) = {} /\ o.url.v[Len(o.url.v)] # "/"
            /\ o.content \in Contents
            /\ o.identifier = <<"t", "e", "s", "t", "-", "p", "a", "p", "e", "r">>
      [] OTHER -> TRUE

\* the answers of the network to the two invocations
ConcOutcomes ==
    {TransportError("ConnectError"),
     Response(RATE_LIMITED, InvalidJson),
     Response(NOT_FOUND, InvalidJson),
     Response(NOT_FOUND, EmptyPage),
     Response(HTTP_OK, SearchPayload(JList(<<ItemFull>>))),
     Response(HTTP_OK, LookupPayload(ItemFull)),
     Response(HTTP_OK, EmptyPage),
     Response(HTTP_OK, Page(<<>>, <<Elem("embed", Attr("type", APPLICATION_PDF)
                                    @@ Attr("src", <<"/", "/", "c", "/", "e", ".", "p", "d", "f">>))>>))}
    \cup {ArtifactResponse(HTTP_OK, ct, <<"h", "t", "t", "p", "s", ":", "/", "/", "c", "/", "e", ".", "p", "d", "f">>, PDF_BYTES_1) :
             ct \in {JNull, JStr(APPLICATION_PDF)}}

\* the two invocations stay within these arguments and answers
InConcWorld ==
    \A t \in ConcTasks :
        /\ ConcArgs(op[t])
        /\ \A k \in 1..Len(resps[t]) : resps[t][k] \in ConcOutcomes

InitConc ==
    /\ pc = [t \in ConcTasks |-> "idle"]
    /\ op = [t \in ConcTasks |-> [name |-> "none"]]
    /\ locals = [t \in ConcTasks |-> NoLocals]
    /\ log = [t \in ConcTasks |-> <<>>]
    /\ resps = [t \in ConcTasks |-> <<>>]
    /\ result = [t \in ConcTasks |-> Pending]
    /\ loop = "free"
    /\ config = Construct(DEFAULT_MIRROR, DEFAULT_OUTPUT_DIR)
    /\ files = MkDir(EmptyFileSystem, PathOf(DEFAULT_OUTPUT_DIR))

\* a step of invocation t
NextConcOf(t) ==
    \/ SearchCall(t) /\ InConcWorld'
    \/ SearchResp1(t) /\ InConcWorld'
    \/ SearchWake(t)
    \/ SearchResp2(t) /\ InConcWorld'
    \/ LookupCall(t) /\ InConcWorld'
    \/ LookupResp(t) /\ InConcWorld'
    \/ DownloadPdfCall(t)
    \/ ReadPaperCall(t)
    \/ ResolveCall(t) /\ InConcWorld'
    \/ ResolveResp(t) /\ InConcWorld'
    \/ GenerateFilenameCall(t) /\ InConcWorld'
    \/ FetchCall(t) /\ InConcWorld'
    \/ FetchPage(t) /\ InConcWorld'
    \/ FetchArtifact(t) /\ InConcWorld'
    \/ Collect(t)

NextConc == \E t \in ConcTasks : NextConcOf(t)

SpecConc == InitConc /\ [][NextConc]_vars

----------------------------------------------------------------------------
(* Observers used by the properties *)

IsGet(e) == e.ev = "get"

\* the HTTP requests an invocation has issued so far
Gets(t) == SelectSeq(log[t], IsGet)

IsCall(t, name) == op[t].name = name

Done(t, name) == IsCall(t, name) /\ pc[t] = "done"

Is429(o) == o.kind = "response" /\ o.status = 429

\* the last network outcome delivered to the invocation
LastOutcome(t) == resps[t][Len(resps[t])]

\* a 200 response whose JSON body has the shape {"message": {"items": [...]}}
IsItemsPayload(o) ==
    /\ o.kind = "response" /\ o.status = 200
    /\ o.body # InvalidJson
    /\ IsDict(o.body) /\ "message" \in DOMAIN o.body.v
    /\ IsDict(o.body.v["message"]) /\ "items" \in DOMAIN o.body.v["message"].v
    /\ IsList(o.body.v["message"].v["items"])

PayloadItems(o) == o.body.v["message"].v["items"].v

IsPaper(x) == x.t = "paper"
NotNull(x) == x # JNull

\* an item whose normalization raises
Malformed(item) == ~ParseItemBody(item).ok
WellFormed(item) == ParseItemBody(item).ok

\* the normalized records of the well-formed items of q, in q's order
NormalizedRecords(q) ==
    LET wf == SelectSeq(q, WellFormed)
    IN [k \in 1..Len(wf) |-> ParseItemBody(wf[k]).val]

----------------------------------------------------------------------------
(* Properties of CrossRefSearcher.search *)

\* C1: one search invocation issues at most two requests; the second is
\* issued only after a first response of status 429 and after the backoff
\* sleep, and repeats the first request exactly; a finished invocation has
\* issued two requests if and only if its first response was 429; whatever
\* the second response is, no third request follows.
C1_SingleRetryOn429 ==
    \A t \in Tasks :
        IsCall(t, "search") =>
            /\ Len(Gets(t)) \in {1, 2}
            /\ Len(Gets(t)) = 2 =>
                  /\ Is429(resps[t][1])
                  /\ log[t] = <<log[t][1], SleepEvent(2), log[t][1]>>
                  /\ IsGet(log[t][1])
            /\ pc[t] = "done" => (Len(Gets(t)) = 2 <=> Is429(resps[t][1]))
            /\ Len(resps[t]) <= Len(Gets(t))

\* a finished search whose retry was answered 429 again: two requests, no third
C1_Witness ==
    \E t \in Tasks :
        /\ Done(t, "search")
        /\ Len(resps[t]) = 2 /\ Is429(resps[t][1]) /\ Is429(resps[t][2])
        /\ Len(Gets(t)) = 2

\* C2: a 429 followed by a 200 items payload returns exactly the normalized
\* records of that payload's items; a 429 followed by a second 429 or any
\* other error status returns the empty list and raises nothing.
C2_RetryResult ==
    \A t \in Tasks :
        (Done(t, "search") /\ Len(resps[t]) = 2 /\ Is429(resps[t][1])) =>
            LET o == resps[t][2]
            IN /\ IsItemsPayload(o) =>
                     result[t] = Return(JList(NormalizedRecords(PayloadItems(o))))
               /\ (o.kind = "response" /\ o.status # 200) =>
                     result[t] = Return(EmptyList)

\* 429 then a 200 payload with a well-formed item: that item's record is returned
C2_Witness ==
    \E t \in Tasks :
        /\ Done(t, "search") /\ Len(resps[t]) = 2 /\ Is429(resps[t][1])
        /\ IsItemsPayload(resps[t][2])
        /\ PayloadItems(resps[t][2]) = <<ItemFull>>
        /\ result[t].kind = "return" /\ Len(result[t].val.v) = 1

\* C3: search is fail-soft: every finished invocation returns a list of
\* paper records and raises nothing; the list is empty whenever the last
\* outcome is a transport error, a non-200 status, or a body that is not an
\* items payload.
C3_SearchFailSoft ==
    \A t \in Tasks :
        Done(t, "search") =>
            /\ result[t].kind = "return"
            /\ IsList(result[t].val)
            /\ \A k \in 1..Len(result[t].val.v) : IsPaper(result[t].val.v[k])
            /\ ~IsItemsPayload(LastOutcome(t)) => result[t].val = EmptyList

\* the empty query with max_results 0 meets a transport error and returns []
C3_Witness ==
    \E t \in Tasks :
        /\ Done(t, "search")
        /\ op[t].query = "" /\ op[t].max_results = 0
        /\ LastOutcome(t).kind = "error"
        /\ result[t] = Return(EmptyList)

\* C4: for a 200 items payload mixing well-formed and malformed items the
\* result is exactly the normalized records of the well-formed items, in
\* payload order: one record per well-formed item, none for a malformed one.
C4_MalformedItemSkipped ==
    \A t \in Tasks :
        (Done(t, "search") /\ IsItemsPayload(LastOutcome(t))) =>
            LET q == PayloadItems(LastOutcome(t))
                wf == SelectSeq(q, WellFormed)
            IN /\ result[t].kind = "return"
               /\ Len(result[t].val.v) = Len(wf)
               /\ \A k \in 1..Len(wf) :
                     /\ result[t].val.v[k] = ParseItemBody(wf[k]).val
                     /\ result[t].val.v[k].paper_id = DictGet(wf[k], "DOI", EmptyStr)

\* a malformed item first, a well-formed one second: only the second is returned
C4_Witness ==
    \E t \in Tasks :
        /\ Done(t, "search") /\ IsItemsPayload(LastOutcome(t))
        /\ PayloadItems(LastOutcome(t)) = <<ItemBadAuthor, ItemFull>>
        /\ Len(result[t].val.v) = 1
        /\ result[t].val.v[1].paper_id = JStr(DoiA)

\* C5: every request of a search carries rows = min(max_results, 1000), so
\* rows never exceeds 1000 and max_results = 5000 gives rows = 1000.
C5_RowsClamped ==
    \A t \in Tasks :
        IsCall(t, "search") =>
            \A k \in 1..Len(Gets(t)) :
                LET rows == Gets(t)[k].params["rows"]
                    m == op[t].max_results
                IN /\ rows = (IF m <= 1000 THEN m ELSE 1000)
                   /\ rows <= 1000
                   /\ m = 5000 => rows = 1000

\* max_results = 5000 with a 429 retry: both requests carry rows = 1000
C5_Witness ==
    \E t \in Tasks :
        /\ IsCall(t, "search") /\ op[t].max_results = 5000
        /\ Len(Gets(t)) = 2
        /\ Gets(t)[1].params["rows"] = 1000 /\ Gets(t)[2].params["rows"] = 1000

----------------------------------------------------------------------------
(* Properties of the unsupported registry operations and of the lookup *)

DoesNotProvide ==
    <<"C", "r", "o", "s", "s", "R", "e", "f", " ", "d", "o", "e", "s", " ",
      "n", "o", "t", " ", "p", "r", "o", "v", "i", "d", "e", " ",
      "d", "i", "r", "e", "c", "t", " ", "P", "D", "F", " ",
      "d", "o", "w", "n", "l", "o", "a", "d", "s">>
CannotBeRead ==
    <<"c", "a", "n", "n", "o", "t", " ", "b", "e", " ", "r", "e", "a", "d", " ",
      "d", "i", "r", "e", "c", "t", "l", "y">>
MetadataOnly ==
    <<"m", "e", "t", "a", "d", "a", "t", "a", " ", "a", "n", "d", " ",
      "a", "b", "s", "t", "r", "a", "c", "t", "s", " ", "a", "r", "e", " ",
      "a", "v", "a", "i", "l", "a", "b", "l", "e">>

\* the results by which lookup and search report "not found"
NotFoundResults == {Return(JNull), Return(EmptyList)}

\* C6: download_pdf raises NotImplementedError whose message says CrossRef
\* does not provide direct PDF downloads; read_paper returns the text saying
\* papers cannot be read directly and only metadata and abstracts are
\* available; neither issues an HTTP request, and neither outcome is the
\* not-found result (None or the empty list) of lookup and search.
C6_UnsupportedSignalled ==
    \A t \in Tasks :
        /\ IsCall(t, "cr_download_pdf") =>
              /\ pc[t] = "done"
              /\ result[t].kind = "raise"
              /\ result[t].exc = "NotImplementedError"
              /\ Contains(result[t].msg, DoesNotProvide)
              /\ log[t] = <<>> /\ resps[t] = <<>>
              /\ result[t] \notin NotFoundResults
        /\ IsCall(t, "cr_read_paper") =>
              /\ pc[t] = "done"
              /\ result[t].kind = "return"
              /\ IsStr(result[t].val)
              /\ Contains(result[t].val.v, CannotBeRead)
              /\ Contains(result[t].val.v, MetadataOnly)
              /\ log[t] = <<>> /\ resps[t] = <<>>
              /\ result[t] \notin NotFoundResults

\* a download_pdf call that has raised
C6_Witness ==
    \E t \in Tasks :
        /\ Done(t, "cr_download_pdf")
        /\ result[t].kind = "raise"
        /\ log[t] = <<>>

\* C7: get_paper_by_doi returns None on a 404 and on every other failure
\* (another non-2xx status, a transport error, an undecodable body); it
\* never raises; on a 200 whose record is well-formed it returns the
\* normalized record, whose identifier is the record's DOI.
C7_LookupNotFoundOrRecord ==
    \A t \in Tasks :
        Done(t, "lookup") =>
            LET o == LastOutcome(t)
            IN /\ result[t].kind = "return"
               /\ (o.kind = "response" /\ o.status = 404) => result[t].val = JNull
               /\ (o.kind = "error") => result[t].val = JNull
               /\ (o.kind = "response" /\ (o.status < 200 \/ o.status > 299)) =>
                     result[t].val = JNull
               /\ (o.kind = "response" /\ o.body = InvalidJson) => result[t].val = JNull
               /\ \A item \in RawItems :
                     (/\ o = Response(200, LookupPayload(item))
                      /\ WellFormed(item) /\ "DOI" \in DOMAIN item.v) =>
                         /\ IsPaper(result[t].val)
                         /\ result[t].val = ParseItemBody(item).val
                         /\ result[t].val.paper_id = item.v["DOI"]

\* a lookup answered 404 has returned None
C7_Witness ==
    \E t \in Tasks :
        /\ Done(t, "lookup")
        /\ LastOutcome(t).kind = "response" /\ LastOutcome(t).status = 404
        /\ result[t] = Return(JNull)

\* a lookup answered 200 with a well-formed record has returned that record
C7_WitnessFound ==
    \E t \in Tasks :
        /\ Done(t, "lookup")
        /\ LastOutcome(t) = Response(200, LookupPayload(ItemFull))
        /\ IsPaper(result[t].val) /\ result[t].val.paper_id = JStr(DoiA)

----------------------------------------------------------------------------
(* Properties of the mirror resolver *)

\* the last four characters of s are ".pdf"
HasPdfSuffix(s) ==
    Len(s) >= 4 /\ SubSeq(s, Len(s) - 3, Len(s)) = <<".", "p", "d", "f">>

\* the page body holds "article not found" in some letter case
HasNotFoundPhrase(text) ==
    \E i \in 1..Len(text) :
        /\ i + 16 <= Len(text)
        /\ \A k \in 1..17 : LowerChar(text[i + k - 1]) = NOT_FOUND_PHRASE[k]

\* the invocation has received a 200 mirror page
GotPage(t) ==
    /\ Done(t, "resolve") /\ Len(resps[t]) = 1
    /\ resps[t][1].kind = "response" /\ resps[t][1].status = 200

\* C8: for an identifier ending in ".pdf" the resolver returns the
\* identifier unchanged and issues no HTTP request.
C8_DirectPdfShortCircuit ==
    \A t \in Tasks :
        (IsCall(t, "resolve") /\ HasPdfSuffix(op[t].identifier)) =>
            /\ pc[t] = "done"
            /\ result[t] = Return(JStr(op[t].identifier))
            /\ log[t] = <<>> /\ resps[t] = <<>>

\* a relative ".pdf" identifier returned as it is, with no request
C8_Witness ==
    \E t \in Tasks :
        /\ Done(t, "resolve")
        /\ op[t].identifier = <<"x", ".", "p", "d", "f">>
        /\ result[t] = Return(JStr(<<"x", ".", "p", "d", "f">>))
        /\ log[t] = <<>>

\* C9: a page whose body holds the not-found phrase in any letter case
\* resolves to no match, whatever elements the page has.
C9_NotFoundPhraseWins ==
    \A t \in Tasks :
        (GotPage(t) /\ HasNotFoundPhrase(resps[t][1].body.text)) =>
            result[t] = Return(JNull)

\* a page with the phrase in mixed case and a matching anchor: no match
C9_Witness ==
    \E t \in Tasks :
        /\ GotPage(t)
        /\ HasNotFoundPhrase(resps[t][1].body.text)
        /\ ~Contains(resps[t][1].body.text, NOT_FOUND_PHRASE)
        /\ \E k \in 1..Len(resps[t][1].body.elems) :
              /\ resps[t][1].body.elems[k].tag = "a"
              /\ resps[t][1].body.elems[k].attrs["href"] =
                     <<"/", "d", "/", "x", ".", "p", "d", "f">>
        /\ result[t] = Return(JNull)

\* the value of attribute name of element e, or the empty string
AttrOrEmpty(e, name) == IF name \in DOMAIN e.attrs THEN e.attrs[name] ELSE <<>>

IsPdfEmbed(e) == e.tag = "embed" /\ AttrOrEmpty(e, "type") = APPLICATION_PDF
IsIframe(e) == e.tag = "iframe"
IsPdfButton(e) ==
    /\ e.tag = "button"
    /\ Contains(Lower(AttrOrEmpty(e, "onclick")), PDF)
    /\ HrefMatch(AttrOrEmpty(e, "onclick")) # JNull
IsPdfAnchor(e) == e.tag = "a" /\ Contains(Lower(AttrOrEmpty(e, "href")), PDF)
IsRootedPdfAnchor(e) ==
    /\ IsPdfAnchor(e)
    /\ \/ AttrOrEmpty(e, "href")[1] = "/"
       \/ /\ Len(AttrOrEmpty(e, "href")) >= 4
          /\ SubSeq(AttrOrEmpty(e, "href"), 1, 4) = <<"h", "t", "t", "p">>

\* position of the first element of q that satisfies P, or 0
FirstWhere(q, P(_)) ==
    IF \E i \in 1..Len(q) : P(q[i])
    THEN CHOOSE i \in 1..Len(q) : P(q[i]) /\ \A j \in 1..(i - 1) : ~P(q[j])
    ELSE 0

\* the source string each strategy yields on a page (<<>>: it yields nothing)
EmbedSource(q) ==
    IF FirstWhere(q, IsPdfEmbed) = 0 THEN <<>>
    ELSE AttrOrEmpty(q[FirstWhere(q, IsPdfEmbed)], "src")
IframeSource(q) ==
    IF FirstWhere(q, IsIframe) = 0 THEN <<>>
    ELSE AttrOrEmpty(q[FirstWhere(q, IsIframe)], "src")
ButtonSource(q) ==
    IF FirstWhere(q, IsPdfButton) = 0 THEN <<>>
    ELSE HrefMatch(q[FirstWhere(q, IsPdfButton)].attrs["onclick"]).v
AnchorSource(q) ==
    IF FirstWhere(q, IsPdfAnchor) = 0 THEN <<>>
    ELSE q[FirstWhere(q, IsPdfAnchor)].attrs["href"]
RootedAnchorSource(q) ==
    IF FirstWhere(q, IsRootedPdfAnchor) = 0 THEN <<>>
    ELSE q[FirstWhere(q, IsRootedPdfAnchor)].attrs["href"]

\* the first of the four sources that is not empty, in rank order
FirstSource(e, i, b, a) ==
    IF e # <<>> THEN e ELSE IF i # <<>> THEN i ELSE IF b # <<>> THEN b ELSE a

\* the result is no match exactly when no source is chosen, and otherwise a
\* string made of the chosen source, possibly behind a prefix
ComesFrom(r, chosen) ==
    /\ r.kind = "return"
    /\ (r.val = JNull) <=> (chosen = <<>>)
    /\ chosen # <<>> => (IsStr(r.val) /\ EndsWith(r.val.v, chosen))

\* a 200 page without the not-found phrase
GotScrapablePage(t) == GotPage(t) /\ ~HasNotFoundPhrase(resps[t][1].body.text)

\* C10 as stated: the result comes from the first of embed, iframe, button,
\* anchor-whose-href-contains-pdf that yields a source, and is no match
\* exactly when all four yield nothing.
C10_AnyPdfAnchor ==
    \A t \in Tasks :
        GotScrapablePage(t) =>
            LET q == resps[t][1].body.elems
            IN ComesFrom(result[t],
                         FirstSource(EmbedSource(q), IframeSource(q),
                                     ButtonSource(q), AnchorSource(q)))

\* C10 amended: as stated, with strategy (d) being the first anchor whose
\* href contains "pdf" and starts with "/" or "http"; an anchor whose href
\* contains "pdf" but starts otherwise yields nothing.
C10_StrategyOrder ==
    \A t \in Tasks :
        GotScrapablePage(t) =>
            LET q == resps[t][1].body.elems
            IN ComesFrom(result[t],
                         FirstSource(EmbedSource(q), IframeSource(q),
                                     ButtonSource(q), RootedAnchorSource(q)))

\* a typed embed without a source cedes to the iframe behind it
C10_Witness ==
    \E t \in Tasks :
        /\ GotScrapablePage(t)
        /\ Len(resps[t][1].body.elems) = 2
        /\ IsPdfEmbed(resps[t][1].body.elems[1])
        /\ EmbedSource(resps[t][1].body.elems) = <<>>
        /\ IframeSource(resps[t][1].body.elems) # <<>>
        /\ IsStr(result[t].val)
        /\ EndsWith(result[t].val.v, IframeSource(resps[t][1].body.elems))

\* a button and an anchor both yield: the button's target is returned
C10_WitnessButtonBeforeAnchor ==
    \E t \in Tasks :
        /\ GotScrapablePage(t)
        /\ Len(resps[t][1].body.elems) = 2
        /\ IsRootedPdfAnchor(resps[t][1].body.elems[1])
        /\ ButtonSource(resps[t][1].body.elems) # <<>>
        /\ IsStr(result[t].val)
        /\ EndsWith(result[t].val.v, ButtonSource(resps[t][1].body.elems))

\* the URL the three-way qualification rule makes of a source string
QualifiedSource(src) ==
    IF Len(src) >= 2 /\ src[1] = "/" /\ src[2] = "/"
    THEN <<"h", "t", "t", "p", "s", ":">> \o src
    ELSE IF src[1] = "/" THEN DEFAULT_MIRROR \o src
    ELSE src

\* the result is the qualified form of a chosen source
IsQualified(r, chosen) == r = Return(JStr(QualifiedSource(chosen)))

\* C11 as stated: whichever of embed, iframe, button,
\* anchor-whose-href-contains-pdf supplies the source, the result is that
\* source with "https:" in front when it starts with "//", with the mirror
\* base in front when it starts with "/", and unchanged otherwise.
C11_AnySourceQualified ==
    \A t \in Tasks :
        GotScrapablePage(t) =>
            LET q == resps[t][1].body.elems
                chosen == FirstSource(EmbedSource(q), IframeSource(q),
                                      ButtonSource(q), AnchorSource(q))
            IN chosen # <<>> => IsQualified(result[t], chosen)

\* C11 amended: the three-way rule holds for the source of an embed, an
\* iframe or a button, and for an anchor href that starts with "/" or with
\* "http"; an anchor href that contains "pdf" but starts otherwise is not
\* returned at all.
C11_ChosenSourceQualified ==
    \A t \in Tasks :
        GotScrapablePage(t) =>
            LET q == resps[t][1].body.elems
                chosen == FirstSource(EmbedSource(q), IframeSource(q),
                                      ButtonSource(q), RootedAnchorSource(q))
            IN chosen # <<>> => IsQualified(result[t], chosen)

\* a page with only <a href="/d/x.pdf"> resolves to {mirror base}/d/x.pdf
C11_Witness ==
    \E t \in Tasks :
        /\ GotScrapablePage(t)
        /\ resps[t][1].body.elems =
               <<Elem("a", Attr("href", <<"/", "d", "/", "x", ".", "p", "d", "f">>))>>
        /\ result[t] = Return(JStr(DEFAULT_MIRROR \o <<"/", "d", "/", "x", ".", "p", "d", "f">>))

\* an embed source starting with "//" comes back behind "https:"
C11_WitnessProtocolRelative ==
    \E t \in Tasks :
        /\ GotScrapablePage(t)
        /\ EmbedSource(resps[t][1].body.elems) = <<"/", "/", "c", "/", "e", ".", "p", "d", "f">>
        /\ result[t] = Return(JStr(<<"h", "t", "t", "p", "s", ":", "/", "/", "c", "/", "e", ".", "p", "d", "f">>))

\* the string is an absolute http or https URL
FullyQualified(s) ==
    \/ Len(s) > 7 /\ SubSeq(s, 1, 7) = <<"h", "t", "t", "p", ":", "/", "/">>
    \/ Len(s) > 8 /\ SubSeq(s, 1, 8) = <<"h", "t", "t", "p", "s", ":", "/", "/">>

\* C12: whatever the identifier and the mirror's answer, the resolver
\* returns no match or a fully qualified URL, never a relative path.
C12_NeverRelative ==
    \A t \in Tasks :
        Done(t, "resolve") =>
            \/ result[t] = Return(JNull)
            \/ /\ result[t].kind = "return" /\ IsStr(result[t].val)
               /\ FullyQualified(result[t].val.v)

\* a 200 page whose embed has the relative source "e.pdf" resolves to "e.pdf"
C12_WitnessRelative ==
    \E t \in Tasks :
        /\ GotScrapablePage(t)
        /\ EmbedSource(resps[t][1].body.elems) = <<"e", ".", "p", "d", "f">>
        /\ result[t] = Return(JStr(<<"e", ".", "p", "d", "f">>))

----------------------------------------------------------------------------
(* Properties of SciHubFetcher.download_pdf *)

\* the string is empty or consists of white space only
OnlyWhitespace(s) == \A k \in DOMAIN s : s[k] \in {" ", "\t", "\n", "\r"}

\* task t starts download_pdf in this step
StartsFetch(t) == pc[t] = "idle" /\ op'[t].name = "fetch"

\* C13: a download_pdf call with an empty or whitespace-only identifier
\* returns None in its first step, having issued no HTTP request (neither to
\* the mirror nor for the artifact) and written no file.
C13_BlankIdentifierNoWork ==
    [][\A t \in Tasks :
          (StartsFetch(t) /\ OnlyWhitespace(op'[t].identifier)) =>
              /\ pc'[t] = "done"
              /\ result'[t] = Return(JNull)
              /\ log'[t] = <<>> /\ resps'[t] = <<>>
              /\ files' = files]_vars

\* download_pdf("  ") has returned None without a request
C13_Witness ==
    \E t \in Tasks :
        /\ Done(t, "fetch")
        /\ op[t].identifier = <<" ", " ">>
        /\ result[t] = Return(JNull)
        /\ log[t] = <<>>

\* the artifact response of task t arrives in this step
ArtifactArrives(t) ==
    /\ IsCall(t, "fetch")
    /\ pc[t] = "fetch_await_artifact" /\ pc'[t] = "done"
    /\ Len(resps'[t]) = Len(resps[t]) + 1

\* the artifact response that has arrived
Artifact(t) == resps[t][Len(resps[t])]

\* a 200 response
IsOk(o) == o.kind = "response" /\ o.status = 200

\* a response whose Content-Type header is exactly application/pdf
HasPdfType(o) ==
    o.content_type =
        JStr(<<"a", "p", "p", "l", "i", "c", "a", "t", "i", "o", "n", "/", "p", "d", "f">>)

\* the last event of the invocation's log is the logged error msg
LastLogged(t, msg) ==
    log[t] # <<>> /\ log[t][Len(log[t])] = [ev |-> "error", msg |-> msg]

\* C14: when the artifact response has status 200 and a Content-Type other
\* than exactly "application/pdf" (another type, a parameterized variant or
\* no header), download_pdf returns None and writes no file; it ends at the
\* content-type check, logging "Response is not a PDF".
C14_StrictContentType ==
    [][\A t \in Tasks :
          (ArtifactArrives(t) /\ IsOk(Artifact(t)') /\ ~HasPdfType(Artifact(t)')) =>
              /\ result'[t] = Return(JNull)
              /\ files' = files
              /\ LastLogged(t, "Response is not a PDF")']_vars

\* a 200 response typed "application/pdf; charset=binary" was rejected
C14_Witness ==
    \E t \in Tasks :
        /\ Done(t, "fetch") /\ resps[t] # <<>>
        /\ IsOk(Artifact(t)) /\ "content_type" \in DOMAIN Artifact(t)
        /\ Artifact(t).content_type = JStr(PDF_WITH_CHARSET)
        /\ result[t] = Return(JNull)
        /\ LastLogged(t, "Response is not a PDF")

\* a 200 response without a Content-Type header was rejected
C14_WitnessNoHeader ==
    \E t \in Tasks :
        /\ Done(t, "fetch") /\ resps[t] # <<>>
        /\ IsOk(Artifact(t)) /\ "content_type" \in DOMAIN Artifact(t)
        /\ Artifact(t).content_type = JNull
        /\ result[t] = Return(JNull)

\* download_pdf has received a 200 artifact response typed application/pdf
GotPdf(t) ==
    /\ Done(t, "fetch") /\ resps[t] # <<>>
    /\ IsOk(Artifact(t)) /\ "content_type" \in DOMAIN Artifact(t)
    /\ HasPdfType(Artifact(t))

\* C15: when the resolver yields a URL and the artifact response is 200
\* with Content-Type exactly "application/pdf", download_pdf returns, not
\* None, but the path of a file under the output directory, and that file
\* holds exactly the downloaded bytes.
C15_SavedUnderOutputDir ==
    \A t \in Tasks :
        GotPdf(t) =>
            /\ result[t].kind = "return" /\ IsStr(result[t].val)
            /\ StartsWith(result[t].val.v, config.sh_output_dir \o <<"/">>)
            /\ result[t].val.v \in DOMAIN files.data
            /\ files.data[result[t].val.v] = Artifact(t).content

\* a 200 application/pdf response was received from the resolved URL and
\* download_pdf returned None, leaving no file
C15_WitnessNone ==
    \E t \in Tasks :
        /\ GotPdf(t)
        /\ Len(resps[t]) = 2
        /\ result[t] = Return(JNull)
        /\ LastLogged(t, "Error downloading PDF")
        /\ DOMAIN files.data = {}

----------------------------------------------------------------------------
(* Properties of SciHubFetcher._generate_filename *)

\* the text of a response's url, whatever object holds it
UrlText(url) == url.v

\* the part of u after its last "/"
LastSegment(u) ==
    IF \E k \in 1..Len(u) : u[k] = "/"
    THEN SubSeq(u, (CHOOSE k \in 1..Len(u) :
                       u[k] = "/" /\ \A j \in (k + 1)..Len(u) : u[j] # "/") + 1,
                Len(u))
    ELSE u

\* positions of seg where "#view=" starts and at least one character follows
ViewSuffixes(seg) ==
    {i \in 1..Len(seg) :
        /\ i + 6 <= Len(seg)
        /\ SubSeq(seg, i, i + 5) = <<"#", "v", "i", "e", "w", "=">>}

\* the segment without its "#view=..." suffix
WithoutView(seg) ==
    IF ViewSuffixes(seg) = {} THEN seg
    ELSE SubSeq(seg, 1, (CHOOSE i \in ViewSuffixes(seg) :
                            \A j \in ViewSuffixes(seg) : i <= j) - 1)

Candidate(url) == WithoutView(LastSegment(url))

Letters ==
    {"a", "b", "c", "d", "e", "f", "g", "h", "i", "j", "k", "l", "m",
     "n", "o", "p", "q", "r", "s", "t", "u", "v", "w", "x", "y", "z",
     "A", "B", "C", "D", "E", "F", "G", "H", "I", "J", "K", "L", "M",
     "N", "O", "P", "Q", "R", "S", "T", "U", "V", "W", "X", "Y", "Z"}
DecimalDigits == {"0", "1", "2", "3", "4", "5", "6", "7", "8", "9"}
HexDigits == DecimalDigits \cup {"a", "b", "c", "d", "e", "f"}

\* the identifier with every character outside alphanumerics, hyphen,
\* underscore and period replaced by an underscore
Sanitized(id) ==
    [k \in 1..Len(id) |->
        IF id[k] \in Letters \cup DecimalDigits \cup {"-", "_", "."} THEN id[k]
        ELSE "_"]

\* {hash}_{stem}.pdf
Named(hash, stem) == hash \o <<"_">> \o stem \o <<".", "p", "d", "f">>

\* the filename the rule gives for a final URL, an identifier and a body
ExpectedFilename(url, id, content) ==
    IF HasPdfSuffix(Candidate(url))
    THEN Named(MD5Prefix(content), SubSeq(Candidate(url), 1, Len(Candidate(url)) - 4))
    ELSE Named(MD5Prefix(content), Sanitized(id))

\* the result is the expected filename, which starts with 8 hexadecimal
\* characters and "_" and ends in ".pdf"
IsExpectedFilename(r, url, id, content) ==
    /\ r = Return(JStr(ExpectedFilename(url, id, content)))
    /\ \A k \in 1..8 : r.val.v[k] \in HexDigits
    /\ r.val.v[9] = "_"
    /\ HasPdfSuffix(r.val.v)

\* C16: for every response and identifier, _generate_filename returns
\* {hash}_{candidate without .pdf}.pdf when the candidate (last segment of
\* the response's URL, "#view=..." removed) ends in ".pdf", and
\* {hash}_{sanitized identifier}.pdf otherwise, hash being the first 8
\* hexadecimal characters of the digest of the content.
C16_FilenameFormat ==
    \A t \in Tasks :
        Done(t, "generate_filename") =>
            IsExpectedFilename(result[t], UrlText(op[t].url), op[t].identifier,
                               op[t].content)

\* C16 restricted to responses whose url attribute is a str, as in the unit
\* test's mock response
C16_FormatForStringUrl ==
    \A t \in Tasks :
        (Done(t, "generate_filename") /\ IsStr(op[t].url)) =>
            IsExpectedFilename(result[t], UrlText(op[t].url), op[t].identifier,
                               op[t].content)

\* for a response whose url is an httpx URL object the call raises
C16_WitnessRaises ==
    \E t \in Tasks :
        /\ Done(t, "generate_filename")
        /\ op[t].url.t = "url"
        /\ HasPdfSuffix(UrlText(op[t].url))
        /\ result[t] = Raise("AttributeError", "")

\* a str url with a "#view=" suffix: the candidate's stem names the file
C16_WitnessStringUrl ==
    \E t \in Tasks :
        /\ Done(t, "generate_filename")
        /\ op[t].url = JStr(<<"h", "t", "t", "p", ":", "/", "/", "c", "/", "a", ".", "p", "d", "f",
                              "#", "v", "i", "e", "w", "=", "F", "i", "t", "H">>)
        /\ op[t].content = PDF_BYTES_1
        /\ result[t] = Return(JStr(<<"7", "0", "8", "4", "b", "a", "8", "d", "_", "a",
                                     ".", "p", "d", "f">>))

\* both invocations are finished calls of _generate_filename for the same
\* URL and identifier
SameNaming(t, u) ==
    /\ Done(t, "generate_filename") /\ Done(u, "generate_filename")
    /\ op[t].url = op[u].url /\ op[t].identifier = op[u].identifier

\* the part of a filename behind its 8-character hash prefix
AfterHash(name) == SubSeq(name, 9, Len(name))
HashOf(name) == SubSeq(name, 1, 8)

C17_WitnessSame ==
    /\ SameNaming("t1", "t2")
    /\ op["t1"].content = op["t2"].content
    /\ result["t1"] = result["t2"] /\ result["t1"].kind = "return"

----------------------------------------------------------------------------
(* Properties of concurrent invocations *)

\* the invocation is suspended at an await, its response outstanding
Awaiting(u) ==
    pc[u] \in {"search_await1", "search_await2", "lookup_await", "resolve_await",
               "fetch_await_page", "fetch_await_artifact"}

\* the step in which the invocation is resumed with its response
Resume(u) ==
    /\ \/ SearchResp1(u) \/ SearchResp2(u) \/ LookupResp(u)
       \/ ResolveResp(u) \/ FetchPage(u) \/ FetchArtifact(u)
    /\ InConcWorld'

\* the search invocation is in the backoff after a 429
InBackoff(t) == IsCall(t, "search") /\ pc[t] = "search_sleep"

\* C18: while one search invocation is in its 429 backoff, every other
\* invocation that waits for a response can be resumed with it: the
\* backoff blocks the calling invocation alone.
C18_OthersRunDuringBackoff ==
    \A t, u \in ConcTasks :
        (InBackoff(t) /\ u # t /\ Awaiting(u)) => ENABLED Resume(u)

\* outside a backoff a waiting invocation can always be resumed
C18_ResumableOutsideBackoff ==
    \A u \in ConcTasks :
        (Awaiting(u) /\ \A t \in ConcTasks : ~InBackoff(t)) => ENABLED Resume(u)

\* a search is in its backoff and a lookup that waits for its response
\* cannot be resumed
C18_WitnessBlocked ==
    /\ InBackoff("t1")
    /\ IsCall("t2", "lookup") /\ pc["t2"] = "lookup_await"
    /\ ~ENABLED Resume("t2")
    /\ ~ENABLED NextConcOf("t2")

\* every request the invocation has issued has been answered to it, except
\* the one it is waiting for: none is shared with or taken from another
OwnResponses(t) ==
    Len(Gets(t)) = Len(resps[t]) + (IF Awaiting(t) THEN 1 ELSE 0)

\* the requests of the invocation are made of its own arguments
OwnRequests(t) ==
    /\ IsCall(t, "search") =>
          /\ Len(Gets(t)) >= 1
          /\ \A k \in 1..Len(Gets(t)) : Gets(t)[k].params["query"] = op[t].query
    /\ IsCall(t, "lookup") =>
          /\ Len(Gets(t)) = 1
          /\ EndsWith(Gets(t)[1].url, <<"/">> \o op[t].doi)
    /\ (IsCall(t, "resolve") /\ ~HasPdfSuffix(op[t].identifier)) =>
          /\ Len(Gets(t)) = 1
          /\ EndsWith(Gets(t)[1].url, <<"/">> \o op[t].identifier)
    /\ (IsCall(t, "fetch") /\ ~OnlyWhitespace(op[t].identifier)) =>
          /\ Len(Gets(t)) >= 1
          /\ EndsWith(Gets(t)[1].url, op[t].identifier)

\* two finished invocations of the same operation with the same arguments
\* and the same responses
SameCall(t, u) ==
    /\ pc[t] = "done" /\ pc[u] = "done"
    /\ op[t] = op[u] /\ resps[t] = resps[u]

\* C19: under every interleaving of two invocations, each invocation issues
\* its own requests, made of its own arguments, and receives its own
\* responses (two invocations with the same argument issue two requests);
\* invocations with equal arguments and equal responses have equal results
\* and request logs; and the configuration fixed at construction (headers,
\* base URL, output directory) is never written.
C19_IndependentInvocations ==
    /\ \A t \in ConcTasks : OwnResponses(t) /\ OwnRequests(t)
    /\ \A t, u \in ConcTasks :
          SameCall(t, u) => (result[t] = result[u] /\ log[t] = log[u])
    /\ config.cr_headers = CrossRefHeaders
    /\ config.sh_base_url = DEFAULT_MIRROR
    /\ config.sh_output_dir = <<"d", "o", "w", "n", "l", "o", "a", "d", "s">>

\* two lookups of the same DOI are in flight, each with its own request
C19_Witness ==
    /\ IsCall("t1", "lookup") /\ IsCall("t2", "lookup")
    /\ op["t1"].doi = op["t2"].doi
    /\ pc["t1"] = "lookup_await" /\ pc["t2"] = "lookup_await"
    /\ Len(Gets("t1")) = 1 /\ Len(Gets("t2")) = 1

\* two searches with the same query got different answers and results
C19_WitnessOwnResult ==
    /\ Done("t1", "search") /\ Done("t2", "search")
    /\ op["t1"] = op["t2"]
    /\ resps["t1"] # resps["t2"]
    /\ result["t1"] # result["t2"]

----------------------------------------------------------------------------
(* Properties of the metadata normalizer *)

\* the first date-parts entry of a date source of the item; <<>> when the
\* source is absent or has no first entry
FirstParts(item, f) ==
    IF /\ f \in DOMAIN item.v
       /\ item.v[f].t = "dict" /\ "date-parts" \in DOMAIN item.v[f].v
       /\ item.v[f].v["date-parts"].t = "list"
       /\ Len(item.v[f].v["date-parts"].v) > 0
       /\ item.v[f].v["date-parts"].v[1].t = "list"
    THEN item.v[f].v["date-parts"].v[1].v
    ELSE <<>>

\* year, month or day of a date-parts entry, a missing month or day being 1
PartAt(parts, k) == IF Len(parts) >= k THEN parts[k].v ELSE 1

LastDayOf(y, m) ==
    IF m \in {4, 6, 9, 11} THEN 30
    ELSE IF m # 2 THEN 31
    ELSE IF (y % 4 = 0 /\ y % 100 # 0) \/ y % 400 = 0 THEN 29 ELSE 28

\* the entry is not empty and names a day of the calendar
ParsesAsDate(parts) ==
    /\ parts # <<>>
    /\ \A k \in 1..Len(parts) : k <= 3 => parts[k].t = "int"
    /\ PartAt(parts, 1) \in 1..9999
    /\ PartAt(parts, 2) \in 1..12
    /\ PartAt(parts, 3) \in 1..LastDayOf(PartAt(parts, 1), PartAt(parts, 2))

DateOf(parts) ==
    [t |-> "datetime", y |-> PartAt(parts, 1), m |-> PartAt(parts, 2),
     d |-> PartAt(parts, 3)]

\* the date of the first of published, issued, created that is present,
\* non-empty and parses; 1970-01-01 when there is none
ExpectedDate(item) ==
    IF ParsesAsDate(FirstParts(item, "published"))
    THEN DateOf(FirstParts(item, "published"))
    ELSE IF ParsesAsDate(FirstParts(item, "issued"))
    THEN DateOf(FirstParts(item, "issued"))
    ELSE IF ParsesAsDate(FirstParts(item, "created"))
    THEN DateOf(FirstParts(item, "created"))
    ELSE [t |-> "datetime", y |-> 1970, m |-> 1, d |-> 1]

\* a finished lookup that was answered 200 with an item and gave a record
LookedUp(t) ==
    /\ Done(t, "lookup")
    /\ LastOutcome(t).kind = "response" /\ LastOutcome(t).status = 200
    /\ result[t].kind = "return" /\ IsPaper(result[t].val)

\* the item of the answer: its "message", an empty item when it has none
LookedUpItem(t) ==
    IF "message" \in DOMAIN LastOutcome(t).body.v
    THEN LastOutcome(t).body.v["message"]
    ELSE EmptyDict

\* C20: the published date of every record produced, by a lookup or by a
\* search, is the date of the first of the item's sources published,
\* issued, created that is present with a non-empty first date-parts entry
\* that parses (missing month and day being 1), and 1970-01-01 when no
\* source is.
C20_PublishedDateChain ==
    \A t \in Tasks :
        /\ LookedUp(t) =>
              result[t].val.published_date = ExpectedDate(LookedUpItem(t))
        /\ (Done(t, "search") /\ IsItemsPayload(LastOutcome(t))) =>
              \A k \in 1..Len(result[t].val.v) :
                  result[t].val.v[k].published_date =
                      ExpectedDate(SelectSeq(PayloadItems(LastOutcome(t)), WellFormed)[k])

\* a record with only created = [[2019]] is dated 2019-01-01
C20_Witness ==
    \E t \in Tasks :
        /\ LookedUp(t)
        /\ LookedUpItem(t) = ItemCreatedOnly
        /\ result[t].val.published_date = [t |-> "datetime", y |-> 2019, m |-> 1, d |-> 1]

\* published = [[2021, 2, 30]] does not parse: created is used
C20_WitnessFallsThrough ==
    \E t \in Tasks :
        /\ LookedUp(t)
        /\ LookedUpItem(t) = ItemBadDay
        /\ result[t].val.published_date = [t |-> "datetime", y |-> 2016, m |-> 12, d |-> 31]

\* all three sources exhausted: 1970-01-01
C20_WitnessEpoch ==
    \E t \in Tasks :
        /\ LookedUp(t)
        /\ LookedUpItem(t) = ItemAllBad
        /\ result[t].val.published_date = [t |-> "datetime", y |-> 1970, m |-> 1, d |-> 1]

\* all three sources usable: published wins
C20_WitnessPublishedWins ==
    \E t \in Tasks :
        /\ LookedUp(t)
        /\ LookedUpItem(t) = ItemAllDates
        /\ result[t].val.published_date = [t |-> "datetime", y |-> 2020, m |-> 5, d |-> 17]

DateFieldNames == {"published", "issued", "created"}

\* the item without its three date sources
WithoutDates(item) ==
    JDict([k \in DOMAIN item.v \ DateFieldNames |-> item.v[k]])

\* an item that normalizes to a record once its date sources are left out:
\* whatever stops it from normalizing lies in the date sources
RegularOutsideDates(item) == IsDict(item) /\ WellFormed(WithoutDates(item))

HasDateAndAuthors(r) ==
    /\ r.kind = "return" /\ IsPaper(r.val)
    /\ r.val.published_date.t = "datetime"
    /\ DOMAIN r.val.authors = 1..Len(r.val.authors)

\* a finished lookup that was answered 200 with a JSON object
Answered(t) ==
    /\ Done(t, "lookup")
    /\ LastOutcome(t).kind = "response" /\ LastOutcome(t).status = 200
    /\ LastOutcome(t).body # InvalidJson /\ IsDict(LastOutcome(t).body)

\* the number of entries of q that satisfy RegularOutsideDates
CountRegular(q) == Cardinality({k \in 1..Len(q) : RegularOutsideDates(q[k])})

\* C21: whatever the published, issued and created fields of an item
\* contain, the item is not skipped because of them: a lookup of such an
\* item gives a record with a published date and an author list, and a
\* search gives a record for every such item of the answer.
C21_DateAlwaysResolvable ==
    \A t \in Tasks :
        /\ (Answered(t) /\ RegularOutsideDates(LookedUpItem(t))) =>
              HasDateAndAuthors(result[t])
        /\ (Done(t, "search") /\ IsItemsPayload(LastOutcome(t))) =>
              Len(result[t].val.v) >= CountRegular(PayloadItems(LastOutcome(t)))

\* issued = [[null]]: the lookup gives no record
C21_WitnessSkipped ==
    \E t \in Tasks :
        /\ Answered(t)
        /\ LookedUpItem(t) = ItemNullDate
        /\ result[t] = Return(JNull)

\* an item whose date sources all fail with a value error is dated 1970-01-01
C21_WitnessValueErrors ==
    \E t \in Tasks :
        /\ Answered(t)
        /\ LookedUpItem(t) = ItemAllBad
        /\ HasDateAndAuthors(result[t])

\* the entry has a non-empty name under key k
HasName(e, k) ==
    IsDict(e) /\ k \in DOMAIN e.v /\ IsStr(e.v[k]) /\ e.v[k].v # <<>>

\* the display name of an entry that has a given or a family name
NameOf(e) ==
    IF HasName(e, "given") /\ HasName(e, "family")
    THEN JStr(e.v["given"].v \o <<" ">> \o e.v["family"].v)
    ELSE IF HasName(e, "family") THEN e.v["family"]
    ELSE e.v["given"]

IsNamed(e) == HasName(e, "given") \/ HasName(e, "family")

\* the display names of the named entries of q, in q's order
NamesOf(q) ==
    LET named == SelectSeq(q, IsNamed)
    IN [k \in 1..Len(named) |-> NameOf(named[k])]

\* the item carries a list of authors
HasAuthorList(item) ==
    IsDict(item) /\ "author" \in DOMAIN item.v /\ IsList(item.v["author"])

\* C22: the authors of a record are the display names of the entries of
\* the item's author list that have a given or a family name, in the
\* list's order: "given family", the family name alone or the given name
\* alone; the output is not longer than the input and has no empty name.
C22_AuthorNormalization ==
    \A t \in Tasks :
        (LookedUp(t) /\ HasAuthorList(LookedUpItem(t))) =>
            /\ result[t].val.authors = NamesOf(LookedUpItem(t).v["author"].v)
            /\ Len(result[t].val.authors) <= Len(LookedUpItem(t).v["author"].v)
            /\ \A k \in 1..Len(result[t].val.authors) :
                  result[t].val.authors[k] # EmptyStr

\* [{given A, family B}, {family C}] gives ["A B", "C"]
C22_Witness ==
    \E t \in Tasks :
        /\ LookedUp(t)
        /\ LookedUpItem(t) = JDict([DOI |-> JStr(DoiA),
                                    author |-> JList(<<AuthorBoth, AuthorFamilyOnly>>)])
        /\ result[t].val.authors = <<JStr(<<"A", " ", "B">>), JStr(<<"C">>)>>

\* an entry with neither name is omitted
C22_WitnessOmitted ==
    \E t \in Tasks :
        /\ LookedUp(t)
        /\ LookedUpItem(t) = JDict([DOI |-> JStr(DoiA),
                                    author |-> JList(<<AuthorNeither, AuthorGivenOnly>>)])
        /\ result[t].val.authors = <<JStr(<<"D">>)>>

\* the primary-resource URL of the item, "" when it has none
PrimaryUrl(item) ==
    IF /\ "resource" \in DOMAIN item.v /\ IsDict(item.v["resource"])
       /\ "primary" \in DOMAIN item.v["resource"].v
       /\ IsDict(item.v["resource"].v["primary"])
       /\ "URL" \in DOMAIN item.v["resource"].v["primary"].v
    THEN item.v["resource"].v["primary"].v["URL"]
    ELSE EmptyStr

\* s contains "pdf" in any letter case
MentionsPdf(s) ==
    \E i \in 1..(Len(s) - 2) :
        s[i] \in {"p", "P"} /\ s[i + 1] \in {"d", "D"} /\ s[i + 2] \in {"f", "F"}

\* an entry of the links list whose content-type contains "pdf"
IsPdfLink(e) ==
    /\ IsDict(e) /\ "content-type" \in DOMAIN e.v
    /\ IsStr(e.v["content-type"]) /\ MentionsPdf(e.v["content-type"].v)

LinksOf(item) ==
    IF "link" \in DOMAIN item.v /\ IsList(item.v["link"]) THEN item.v["link"].v ELSE <<>>

UrlOfLink(e) == IF "URL" \in DOMAIN e.v THEN e.v["URL"] ELSE EmptyStr

\* first match wins: primary resource, then the first PDF link, then ""
ExpectedPdfUrl(item) ==
    IF HasPdfSuffix(PrimaryUrl(item).v) THEN PrimaryUrl(item)
    ELSE IF \E k \in 1..Len(LinksOf(item)) : IsPdfLink(LinksOf(item)[k])
    THEN UrlOfLink(SelectSeq(LinksOf(item), IsPdfLink)[1])
    ELSE EmptyStr

\* C23: the pdf_url of a record is the item's primary-resource URL when
\* that ends in ".pdf", also when the links list has PDF entries; otherwise
\* the URL of the first entry of the links list whose content-type contains
\* "pdf" in any letter case; otherwise the empty string.
C23_PdfUrlFirstMatch ==
    \A t \in Tasks :
        LookedUp(t) => result[t].val.pdf_url = ExpectedPdfUrl(LookedUpItem(t))

\* primary resource ending in .pdf wins over a PDF link
C23_Witness ==
    \E t \in Tasks :
        /\ LookedUp(t)
        /\ LookedUpItem(t) = JDict([DOI |-> JStr(DoiA),
                                    resource |-> ResourceOf(PRIMARY_PDF_URL),
                                    link |-> JList(<<LinkPdf>>)])
        /\ result[t].val.pdf_url = JStr(PRIMARY_PDF_URL)

\* no usable primary resource: the first PDF link, matched in upper case
C23_WitnessLink ==
    \E t \in Tasks :
        /\ LookedUp(t)
        /\ LookedUpItem(t) = JDict([DOI |-> JStr(DoiA),
                                    resource |-> ResourceOf(PRIMARY_HTML_URL),
                                    link |-> JList(<<LinkHtml, LinkPdfUpper>>)])
        /\ result[t].val.pdf_url = JStr(<<"h", ":", "/", "2">>)

\* nothing matches: the empty string
C23_WitnessEmpty ==
    \E t \in Tasks :
        /\ LookedUp(t)
        /\ LookedUpItem(t) = JDict([DOI |-> JStr(DoiA),
                                    link |-> JList(<<LinkHtml, LinkUntyped>>)])
        /\ result[t].val.pdf_url = EmptyStr

----------------------------------------------------------------------------
(* Properties of the requests sent to the registry *)

TOOL_NAME == <<"p", "a", "p", "e", "r", "-", "s", "e", "a", "r", "c", "h", "-", "m", "c", "p">>
MAILTO_COLON == <<"m", "a", "i", "l", "t", "o", ":">>

\* p occurs in s
Mentions(s, p) ==
    \E i \in 1..(Len(s) - Len(p) + 1) : SubSeq(s, i, i + Len(p) - 1) = p

\* the request carries the contact parameter and the identifying header
IsPolite(e) ==
    /\ "mailto" \in DOMAIN e.params /\ e.params["mailto"] = "paper-search@example.org"
    /\ "User-Agent" \in DOMAIN e.headers
    /\ Mentions(e.headers["User-Agent"], TOOL_NAME)
    /\ Mentions(e.headers["User-Agent"], MAILTO_COLON)

\* C24: every request issued by search (first request and 429 retry) and
\* by get_paper_by_doi carries the fixed mailto parameter and a User-Agent
\* header naming paper-search-mcp and a mailto: contact, whatever keyword
\* arguments the caller supplied.
C24_PoliteRequests ==
    \A t \in Tasks :
        (IsCall(t, "search") \/ IsCall(t, "lookup")) =>
            \A k \in 1..Len(log[t]) : IsGet(log[t][k]) => IsPolite(log[t][k])

\* a search called with mailto=... has issued its request and its retry
C24_Witness ==
    \E t \in Tasks :
        /\ Done(t, "search")
        /\ "mailto" \in DOMAIN op[t].kwargs
        /\ Len(Gets(t)) = 2
        /\ \A k \in 1..2 : IsPolite(Gets(t)[k])

\* a lookup has issued its request
C24_WitnessLookup ==
    \E t \in Tasks :
        /\ Done(t, "lookup") /\ Len(Gets(t)) = 1 /\ IsPolite(Gets(t)[1])

----------------------------------------------------------------------------
(* Properties of the server tools *)

\* the request carries the caller's value of keyword k, when one was given
Carries(e, kwargs, k) ==
    k \in DOMAIN kwargs => (k \in DOMAIN e.params /\ e.params[k] = kwargs[k])

\* C25: every request issued for a search_crossref tool call carries the
\* filter, the sort and the order the tool was called with.
C25_ToolForwardsParameters ==
    \A t \in Tasks :
        IsCall(t, "search_crossref") =>
            \A k \in 1..Len(log[t]) :
                IsGet(log[t][k]) =>
                    /\ Carries(log[t][k], op[t].kwargs, "filter")
                    /\ Carries(log[t][k], op[t].kwargs, "sort")
                    /\ Carries(log[t][k], op[t].kwargs, "order")

\* the tool was called with filter, sort and order; its request has no
\* filter and the default sort and order
C25_WitnessDropped ==
    \E t \in Tasks :
        /\ IsCall(t, "search_crossref") /\ pc[t] = "done"
        /\ {"filter", "sort", "order"} \subseteq DOMAIN op[t].kwargs
        /\ "filter" \notin DOMAIN Gets(t)[1].params
        /\ Gets(t)[1].params["sort"] = "relevance"
        /\ Gets(t)[1].params["order"] = "desc"

\* the same keywords given to CrossRefSearcher.search reach the request
C25_WitnessDirect ==
    \E t \in Tasks :
        /\ Done(t, "search")
        /\ {"filter", "sort", "order"} \subseteq DOMAIN op[t].kwargs
        /\ Gets(t)[1].params["filter"] = "has-full-text:true"
        /\ Gets(t)[1].params["sort"] = "published"
        /\ Gets(t)[1].params["order"] = "asc"

\* C26: the get_crossref_paper_by_doi tool does not raise: it returns the
\* metadata dictionary of the paper or the empty dictionary.
C26_LookupToolReturns ==
    \A t \in Tasks :
        (IsCall(t, "get_crossref_paper_by_doi") /\ pc[t] = "done") =>
            /\ result[t].kind = "return"
            /\ result[t].val = EmptyDict \/ result[t].val.t = "paper_dict"

\* the tool has raised without issuing a request
C26_WitnessRaises ==
    \E t \in Tasks :
        /\ IsCall(t, "get_crossref_paper_by_doi") /\ pc[t] = "done"
        /\ result[t].kind = "raise" /\ result[t].exc = "NameError"
        /\ Gets(t) = <<>>

----------------------------------------------------------------------------
(* Frame and ordering properties of SciHubFetcher.download_pdf *)

\* download_pdf of task t returns None in this step
FetchFails(t) ==
    /\ op'[t].name = "fetch"
    /\ pc[t] # "done" /\ pc'[t] = "done"
    /\ result'[t] = Return(JNull)

\* C27: a step in which download_pdf returns None (blank identifier, no
\* match of the resolver, mirror or artifact status other than 200,
\* content-type mismatch, transport exception, filename generation failure)
\* creates, truncates and modifies no file: the files are as they were.
C27_FailureLeavesFilesUnchanged ==
    [][\A t \in Tasks : FetchFails(t) => files' = files]_vars

\* download_pdf has logged the error msg
LoggedError(t, msg) ==
    \E k \in 1..Len(log[t]) : log[t][k] = [ev |-> "error", msg |-> msg]

\* download_pdf has failed on an artifact status other than 200 and the
\* output directory holds no file
C27_Witness ==
    \E t \in Tasks :
        /\ Done(t, "fetch") /\ result[t] = Return(JNull)
        /\ LoggedError(t, "Failed to download PDF")
        /\ files = [dirs |-> {config.sh_output_dir}, data |-> <<>>]

\* download_pdf has failed because the resolver found no match
C27_WitnessNoMatch ==
    \E t \in Tasks :
        /\ Done(t, "fetch") /\ result[t] = Return(JNull)
        /\ LoggedError(t, "Could not find PDF URL")
        /\ DOMAIN files.data = {}

\* requests are told apart by their timeouts: 20 s mirror page, 30 s artifact
IsMirrorRequest(e) == e.timeout = 20
IsArtifactRequest(e) == e.timeout = 30

\* the resolver finds no match in this answer of the mirror
NoMatch(o) ==
    \/ o.kind = "error"
    \/ o.status # 200
    \/ HasNotFoundPhrase(o.body.text)
    \/ FirstSource(EmbedSource(o.body.elems), IframeSource(o.body.elems),
                   ButtonSource(o.body.elems), RootedAnchorSource(o.body.elems)) = <<>>

\* the requests g and answers r of one download_pdf invocation are in order
InOrder(g, r, identifier) ==
    /\ Len(g) <= 2 /\ Len(r) <= Len(g)
    /\ \A k \in 1..Len(g) : IsMirrorRequest(g[k]) => k = 1
    /\ \A k \in 1..Len(g) :
          IsArtifactRequest(g[k]) =>
              \/ k = 1 /\ HasPdfSuffix(identifier) /\ g[k].url = identifier
              \/ /\ k = 2 /\ IsMirrorRequest(g[1]) /\ ~HasPdfSuffix(identifier)
                 /\ r # <<>> /\ ~NoMatch(r[1])
    /\ (g # <<>> /\ IsMirrorRequest(g[1]) /\ r # <<>> /\ NoMatch(r[1])) => Len(g) = 1

\* C28: a download_pdf invocation issues at most one mirror-page request,
\* then at most one artifact request; the artifact request follows a URL
\* returned by the resolver and is never issued after a no match; no
\* request is issued twice, so there are at most two requests in all.
C28_OrderedBoundedRequests ==
    \A t \in Tasks :
        IsCall(t, "fetch") =>
            /\ \A k \in 1..Len(Gets(t)) :
                  IsMirrorRequest(Gets(t)[k]) \/ IsArtifactRequest(Gets(t)[k])
            /\ InOrder(Gets(t), resps[t], op[t].identifier)

\* a finished invocation with a mirror request and then an artifact request
C28_Witness ==
    \E t \in Tasks :
        /\ Done(t, "fetch")
        /\ Len(Gets(t)) = 2 /\ Len(resps[t]) = 2
        /\ IsMirrorRequest(Gets(t)[1]) /\ IsArtifactRequest(Gets(t)[2])

\* a finished invocation whose mirror page carried the not-found phrase:
\* one request only
C28_WitnessNoMatch ==
    \E t \in Tasks :
        /\ Done(t, "fetch")
        /\ Len(resps[t]) = 1 /\ resps[t][1].kind = "response"
        /\ resps[t][1].status = 200 /\ HasNotFoundPhrase(resps[t][1].body.text)
        /\ Len(Gets(t)) = 1 /\ IsMirrorRequest(Gets(t)[1])

\* the names of the parameters a search called with kwargs sends
ExpectedParamNames(kwargs) ==
    {"query", "rows", "sort", "order", "mailto"}
    \cup (IF "filter" \in DOMAIN kwargs THEN {"filter"} ELSE {})

\* the value of parameter k of a search(query, max_results, **kwargs)
ExpectedParam(k, query, max_results, kwargs) ==
    CASE k = "query" -> query
      [] k = "rows" -> IF max_results < 1000 THEN max_results ELSE 1000
      [] k = "sort" -> IF "sort" \in DOMAIN kwargs THEN kwargs["sort"] ELSE "relevance"
      [] k = "order" -> IF "order" \in DOMAIN kwargs THEN kwargs["order"] ELSE "desc"
      [] k = "mailto" -> "paper-search@example.org"
      [] k = "filter" -> kwargs["filter"]

C29_WitnessFilter ==
    \E t \in Tasks :
        /\ Done(t, "search")
        /\ DOMAIN op[t].kwargs = {"filter"}
        /\ DOMAIN Gets(t)[1].params = {"query", "rows", "sort", "order", "mailto", "filter"}
        /\ Gets(t)[1].params["filter"] = "has-full-text:true"

----------------------------------------------------------------------------
(* Concurrent download_pdf invocations and the files they leave *)

\* every file holds the whole body of one response some invocation received
WholeBodies ==
    \A p \in DOMAIN files.data :
        \E t \in ConcTasks :
            \E k \in 1..Len(resps[t]) :
                /\ IsCall(t, "fetch") /\ "content" \in DOMAIN resps[t][k]
                /\ files.data[p] = resps[t][k].content

\* no download_pdf invocation reaches its write: whatever the two
\* invocations receive, the output directory stays empty, so WholeBodies
\* says nothing about the writes of concurrent invocations
NoFileWritten == DOMAIN files.data = {}

\* two invocations have both ended on a 200 application/pdf response from
\* the same URL
BothGotPdf ==
    /\ \A t \in ConcTasks : GotPdf(t)
    /\ \A t, u \in ConcTasks : Artifact(t).url = Artifact(u).url

============================================================================
